---- MODULE Spec2Model ----
(***************************************************************************)
(* Model of the hoyodeck plugin's DataController (data-controller.ts) and  *)
(* of BaseGameController.fetchAll (base-game-controller.ts).               *)
(*                                                                         *)
(* Strings that the code builds, splits or prefix-tests (account ids,      *)
(* data type keys, store keys) are sequences of tokens, so that            *)
(* `${accountId}:${dataType}` is a concatenation and startsWith is a       *)
(* prefix test.  One step of the model is one run-to-completion turn of    *)
(* the JavaScript event loop: a handler up to its next await on real I/O.  *)
(***************************************************************************)
EXTENDS Integers, Sequences, FiniteSets, TLC

\* ------------------------------------------------------------------------
\* Bounds of the model
\* ------------------------------------------------------------------------
\* largest number of fetchAndNotify calls in flight at once
MaxTasks == 2
\* largest value of the clock read by Date.now()
MaxNow == 1
\* largest number of interval / timeout handles alive at once
MaxHandles == 2
\* the BaseAction handlers suspended at once
MaxHandlers == 1
\* the validateAccount calls awaiting the service at once
MaxValidations == 2
\* the clearBlinkAnimation calls of one banner key
MaxGeneration == 3

\* ------------------------------------------------------------------------
\* Program constants
\* ------------------------------------------------------------------------
DEFAULT_POLL_INTERVAL_MS == 300000
SETTINGS_DEBOUNCE_MS == 500
\* a second interval, for setPollingInterval
OtherPollIntervalMs == DEFAULT_POLL_INTERVAL_MS \div 5
DefaultBadgeFontSize == 18
\* HoYoLAB retcodes (API_ERRORS)
VISIT_TOO_FREQUENTLY == -110
NOT_LOGGED_IN == -101
INVALID_REQUEST == -100
LOGIN_REQUIRED == 10001
SUCCESS == 0
DATA_NOT_PUBLIC == 10102
ALREADY_CLAIMED == -5003

\* no timer handle (null)
Null == 0
\* an absent optional property
Undefined == "undefined"

\* ------------------------------------------------------------------------
\* Strings as token sequences
\* ------------------------------------------------------------------------
Colon == <<":">>

StartsWith(s, p) ==
  /\ Len(p) <= Len(s)
  /\ SubSeq(s, 1, Len(p)) = p

Range(s) == {s[i] : i \in 1..Len(s)}

Includes(s, x) == \E i \in 1..Len(s) : s[i] = x

\* the elements of s that satisfy Test, in order
RECURSIVE SelectIn(_, _)
SelectIn(s, S) ==
  IF s = <<>> THEN <<>>
  ELSE IF Head(s) \in S THEN <<Head(s)>> \o SelectIn(Tail(s), S)
  ELSE SelectIn(Tail(s), S)

\* s without duplicates, first occurrences kept (iteration order of a JS Set)
RECURSIVE Dedup(_)
Dedup(s) ==
  IF s = <<>> THEN <<>>
  ELSE LET r == Dedup(SubSeq(s, 1, Len(s) - 1))
           x == s[Len(s)]
       IN IF Includes(r, x) THEN r ELSE Append(r, x)

RECURSIVE Flatten(_)
Flatten(ss) == IF ss = <<>> THEN <<>> ELSE Head(ss) \o Flatten(Tail(ss))

\* ------------------------------------------------------------------------
\* Identifiers
\* ------------------------------------------------------------------------
\* Account ids are crypto.randomUUID() values: hex digits and dashes, never
\* a colon.  The two ids are chosen so that one is a proper prefix of the
\* other.
A1 == <<"a">>
A2 == <<"a", "b">>
AccountIds == {A1, A2}

GameIds == {"gi", "hsr"}

DT(game, endpoint) == <<game>> \o Colon \o <<endpoint>>

GiDailyNote == DT("gi", "daily-note")
GiSpiralAbyss == DT("gi", "spiral-abyss")
GiActCalendar == DT("gi", "act-calendar")
GiCheckIn == DT("gi", "check-in")
HsrDailyNote == DT("hsr", "daily-note")
HsrActCalendar == DT("hsr", "act-calendar")
HsrCheckIn == DT("hsr", "check-in")

\* GAME_DATA_TYPES
GAME_DATA_TYPES(game) ==
  IF game = "gi" THEN <<GiDailyNote, GiSpiralAbyss, GiActCalendar, GiCheckIn>>
  ELSE <<HsrDailyNote, HsrActCalendar, HsrCheckIn>>

DataTypes == Range(GAME_DATA_TYPES("gi")) \cup Range(GAME_DATA_TYPES("hsr"))

\* dt.split(':')[0]
GameOf(dt) == dt[1]

\* buildStoreKey: `${accountId}:${dataType}`
BuildStoreKey(accountId, dataType) == accountId \o Colon \o dataType

ActionIds == {"w1", "w2"}

\* listener closures; the one named "bad" throws when it is called
Listeners == {"l1", "l2", "bad"}
Throws(l) == l = "bad"

\* ------------------------------------------------------------------------
\* Configuration: credentials, accounts, global settings
\* ------------------------------------------------------------------------
\* An optional preference is a set with no element (absent) or one element.
OrDefault(v, d) == IF v = {} THEN d ELSE CHOOSE x \in v : TRUE

Auth(lt, lu, lm, ct, am, ai) ==
  [ltoken_v2 |-> lt, ltuid_v2 |-> lu, ltmid_v2 |-> lm,
   cookie_token_v2 |-> ct, account_mid_v2 |-> am, account_id_v2 |-> ai]

AuthBase == Auth("t1", "u1", "m1", Undefined, Undefined, Undefined)
AuthFields == {"ltoken_v2", "ltuid_v2", "ltmid_v2",
               "cookie_token_v2", "account_mid_v2", "account_id_v2"}

\* AuthBase with one field replaced
AuthWith(f, v) == [AuthBase EXCEPT ![f] = v]

\* HoyoAuthSchema: three non-empty strings, three optional strings
IsValidAuth(auth) ==
  /\ auth.ltoken_v2 \notin {Undefined, ""}
  /\ auth.ltuid_v2 \notin {Undefined, ""}
  /\ auth.ltmid_v2 \notin {Undefined, ""}

\* uids: game -> external id, Undefined where the account does not play
UidsBoth == [g \in GameIds |-> IF g = "gi" THEN "801" ELSE "802"]
UidsGiOnly == [g \in GameIds |-> IF g = "gi" THEN "801" ELSE Undefined]
UidsGiOther == [g \in GameIds |-> IF g = "gi" THEN "811" ELSE "802"]

\* nicknames: game -> nickname of the role, like uids
NicknamesOf(uids) ==
  [g \in GameIds |-> IF uids[g] = Undefined THEN Undefined ELSE "nick"]

Account(id, auth, status, uids) ==
  [id |-> id, auth |-> auth, authStatus |-> status, uids |-> uids,
   nicknames |-> NicknamesOf(uids)]

BaseAccount(a) == Account(a, AuthBase, "valid", UidsBoth)

\* accounts map with the accounts of S
AccountsMap(S) == [a \in S |-> BaseAccount(a)]

Settings(accounts, anim, pos, layout, size) ==
  [accounts |-> accounts, disableAnimations |-> anim,
   bannerBadgePosition |-> pos, bannerBadgeLayout |-> layout,
   bannerBadgeFontSize |-> size, pendingValidation |-> {}]

\* both accounts configured, every preference absent
S0 == Settings(AccountsMap(AccountIds), {}, {}, {}, {})
\* a rendering preference toggled
S1 == [S0 EXCEPT !.disableAnimations = {TRUE}]
\* account A2 deleted
S2 == [S0 EXCEPT !.accounts = AccountsMap({A1})]
\* the token of A1 replaced
S3 == [S0 EXCEPT !.accounts[A1].auth = AuthWith("ltoken_v2", "t2")]

\* ------------------------------------------------------------------------
\* State
\* ------------------------------------------------------------------------
VARIABLES
  settings,        \* the global settings held by Stream Deck
  registrations,   \* Map actionId -> ActionRegistration, in insertion order
  store,           \* Map DataStoreKey -> DataEntry
  clientCache,     \* Map AccountId -> HoyolabClient
  pollIntervalMs,
  pollTimer,       \* handle of the interval, or Null
  intervals,       \* the intervals armed in the runtime: handle -> period
  polling,         \* a poll cycle is running
  previousAccounts,            \* [defined, value]: undefined before the seed
  previousDisableAnimations,
  previousBannerBadgePosition,
  previousBannerBadgeLayout,
  previousBannerBadgeFontSize,
  settingsDebounceTimer,       \* handle of the debounce timeout, or Null
  timeouts,        \* the timeouts armed in the runtime: handle -> settings
  seedPending,     \* init's getGlobalSettings() has not resolved yet
  tasks,           \* the fetchAndNotify calls in flight, oldest first
  now,             \* Date.now()
  handlers,        \* the BaseAction handlers suspended at resolveAccount
  visible,         \* the consumers shown on the device (appeared, not gone)
  validations,     \* the validateAccount calls awaiting the service
  keyStates,       \* Map actionId -> BannerKeyState of the banner keys
  blinkTimers,     \* the blink timeouts armed in the runtime, by handle
  renders,         \* the banner handlers suspended at an await
  last             \* what the latest step did (observation only)

vars == <<settings, registrations, store, clientCache, pollIntervalMs,
          pollTimer, intervals, polling, previousAccounts,
          previousDisableAnimations, previousBannerBadgePosition,
          previousBannerBadgeLayout, previousBannerBadgeFontSize,
          settingsDebounceTimer, timeouts, seedPending, tasks, now, handlers,
          visible, validations, keyStates, blinkTimers, renders, last>>

registryVars == <<registrations, pollIntervalMs, pollTimer, intervals>>
cacheVars == <<store, clientCache>>
diffVars == <<previousAccounts, previousDisableAnimations,
              previousBannerBadgePosition, previousBannerBadgeLayout,
              previousBannerBadgeFontSize>>
debounceVars == <<settingsDebounceTimer, timeouts>>
consumerVars == <<handlers, visible>>
bannerVars == <<keyStates, blinkTimers, renders>>

\* the observation of a step: which operation ran, the listener calls it
\* made, the store writes, the fetch operations it started, the accounts it
\* invalidated, the map fetchAll returned together with the outcomes it was
\* built from, whether the step's promise rejected, and the store keys whose
\* entry the step replaced by a different one
Obs(op) ==
  [op |-> op, calls |-> <<>>, writes |-> <<>>, fetches |-> <<>>,
   invalidated |-> {}, results |-> <<>>, settled |-> <<>>,
   rejected |-> FALSE, noop |-> FALSE, replaced |-> {}, arg |-> <<>>]

EmptyMap == <<>>

\* ------------------------------------------------------------------------
\* The registrations Map (insertion ordered)
\* ------------------------------------------------------------------------
Registration(actionId, accountId, dataTypes, listener) ==
  [actionId |-> actionId, accountId |-> accountId,
   dataTypes |-> dataTypes, listener |-> listener]

HasReg(regs, id) == \E i \in 1..Len(regs) : regs[i].actionId = id

\* Map.get, for a key that is present
GetReg(regs, id) == regs[CHOOSE i \in 1..Len(regs) : regs[i].actionId = id]

\* Map.set: an existing key keeps its position, a new key goes last
MapSet(regs, reg) ==
  IF HasReg(regs, reg.actionId)
  THEN [i \in 1..Len(regs) |->
          IF regs[i].actionId = reg.actionId THEN reg ELSE regs[i]]
  ELSE Append(regs, reg)

\* Map.delete
RECURSIVE MapDelete(_, _)
MapDelete(regs, id) ==
  IF regs = <<>> THEN <<>>
  ELSE IF Head(regs).actionId = id THEN Tail(regs)
  ELSE <<Head(regs)>> \o MapDelete(Tail(regs), id)

\* one invocation of a registration's listener
Call(reg, accountId, dataType, entry) ==
  [actionId |-> reg.actionId, listener |-> reg.listener,
   accountId |-> accountId, dataType |-> dataType, entry |-> entry]

\* ------------------------------------------------------------------------
\* Polling timer
\* ------------------------------------------------------------------------
\* the handle setInterval / setTimeout returns: one that is not armed
FreshHandle(armed) == CHOOSE h \in 1..(MaxHandles + 1) :
                        /\ h \notin DOMAIN armed
                        /\ \A k \in 1..(h - 1) : k \in DOMAIN armed

Arm(armed, h, v) == [k \in DOMAIN armed \cup {h} |-> IF k = h THEN v ELSE armed[k]]
Disarm(armed, h) == [k \in DOMAIN armed \ {h} |-> armed[k]]

\* startPollingIfNeeded without its first early return: an armed timer is
\* not noticed and a second interval is armed
StartPollingAlways(pt, ivs, regs, ms) ==
  IF Len(regs) = 0 THEN [pollTimer |-> pt, intervals |-> ivs]
  ELSE LET h == FreshHandle(ivs)
       IN [pollTimer |-> h, intervals |-> Arm(ivs, h, ms)]

\* startPollingIfNeeded, as [pollTimer, intervals]
StartPollingIfNeeded(pt, ivs, regs, ms) ==
  IF pt # Null THEN [pollTimer |-> pt, intervals |-> ivs]
  ELSE IF Len(regs) = 0 THEN [pollTimer |-> pt, intervals |-> ivs]
  ELSE LET h == FreshHandle(ivs)
       IN [pollTimer |-> h, intervals |-> Arm(ivs, h, ms)]

\* stopPolling, as [pollTimer, intervals]
StopPolling(pt, ivs) ==
  IF pt = Null THEN [pollTimer |-> pt, intervals |-> ivs]
  ELSE [pollTimer |-> Null, intervals |-> Disarm(ivs, pt)]

\* ------------------------------------------------------------------------
\* register / unregister / setPollingInterval
\* ------------------------------------------------------------------------
\* the early return of register taken only for the very same registration
\* object, listener included
SameRegistrationObject(regs, reg) ==
  /\ HasReg(regs, reg.actionId)
  /\ GetReg(regs, reg.actionId) = reg

\* register returns early: same account, same data types in the same order
SameRegistration(regs, reg) ==
  /\ HasReg(regs, reg.actionId)
  /\ LET existing == GetReg(regs, reg.actionId)
     IN /\ existing.accountId = reg.accountId
        /\ Len(existing.dataTypes) = Len(reg.dataTypes)
        /\ \A i \in 1..Len(existing.dataTypes) :
              existing.dataTypes[i] = reg.dataTypes[i]

\* a cold-start push that stops after the first cached entry
RECURSIVE ReplayFirstOnly(_, _, _)
ReplayFirstOnly(reg, dts, st) ==
  IF dts = <<>> THEN <<>>
  ELSE LET key == BuildStoreKey(reg.accountId, Head(dts))
       IN IF key \in DOMAIN st
          THEN <<Call(reg, reg.accountId, Head(dts), st[key])>>
          ELSE ReplayFirstOnly(reg, Tail(dts), st)

\* the cold-start push of register: one call per requested data type that
\* has an entry in the store, in the order of the request
RECURSIVE ReplayCalls(_, _, _)
ReplayCalls(reg, dts, st) ==
  IF dts = <<>> THEN <<>>
  ELSE LET key == BuildStoreKey(reg.accountId, Head(dts))
           rest == ReplayCalls(reg, Tail(dts), st)
       IN IF key \in DOMAIN st
          THEN <<Call(reg, reg.accountId, Head(dts), st[key])>> \o rest
          ELSE rest

Register(reg) ==
  /\ Cardinality(DOMAIN intervals) < MaxHandles
  /\ IF SameRegistration(registrations, reg)
     THEN /\ last' = [Obs("register") EXCEPT !.noop = TRUE, !.arg = reg]
          /\ UNCHANGED registryVars
     ELSE LET regs == MapSet(registrations, reg)
              t == StartPollingIfNeeded(pollTimer, intervals, regs,
                                        pollIntervalMs)
          IN /\ registrations' = regs
             /\ pollTimer' = t.pollTimer
             /\ intervals' = t.intervals
             /\ UNCHANGED pollIntervalMs
             /\ last' = [Obs("register") EXCEPT
                           !.calls = ReplayCalls(reg, reg.dataTypes, store),
                           !.arg = reg]
  /\ UNCHANGED <<settings, cacheVars, polling, diffVars, debounceVars,
                 seedPending, tasks, now, consumerVars,
                 validations, bannerVars>>

\* an unregister that evicts the entries no registration asks for any more
UnregisterEvicting(actionId) ==
  LET regs == MapDelete(registrations, actionId)
      t == IF Len(regs) = 0 THEN StopPolling(pollTimer, intervals)
           ELSE [pollTimer |-> pollTimer, intervals |-> intervals]
  IN /\ registrations' = regs
     /\ pollTimer' = t.pollTimer
     /\ intervals' = t.intervals
     /\ store' = [key \in {k \in DOMAIN store :
                            \E i \in 1..Len(regs) :
                              StartsWith(k, regs[i].accountId \o Colon)}
                    |-> store[key]]
     /\ last' = [Obs("unregister") EXCEPT !.arg = actionId]
     /\ UNCHANGED <<settings, pollIntervalMs, clientCache, polling, diffVars,
                    debounceVars, seedPending, tasks, now, consumerVars,
                 validations, bannerVars>>

\* an unregister that cancels the calls in flight
UnregisterCancelling(actionId) ==
  LET regs == MapDelete(registrations, actionId)
      t == IF Len(regs) = 0 THEN StopPolling(pollTimer, intervals)
           ELSE [pollTimer |-> pollTimer, intervals |-> intervals]
  IN /\ registrations' = regs
     /\ pollTimer' = t.pollTimer
     /\ intervals' = t.intervals
     /\ tasks' = <<>>
     /\ polling' = FALSE
     /\ last' = [Obs("unregister") EXCEPT !.arg = actionId]
     /\ UNCHANGED <<settings, pollIntervalMs, cacheVars, diffVars,
                    debounceVars, seedPending, now, consumerVars,
                 validations, bannerVars>>

Unregister(actionId) ==
  LET regs == MapDelete(registrations, actionId)
      t == IF Len(regs) = 0 THEN StopPolling(pollTimer, intervals)
           ELSE [pollTimer |-> pollTimer, intervals |-> intervals]
  IN /\ registrations' = regs
     /\ pollTimer' = t.pollTimer
     /\ intervals' = t.intervals
     /\ UNCHANGED pollIntervalMs
     /\ last' = [Obs("unregister") EXCEPT !.arg = actionId]
     /\ UNCHANGED <<settings, cacheVars, polling, diffVars, debounceVars,
                    seedPending, tasks, now, consumerVars,
                 validations, bannerVars>>

SetPollingInterval(ms) ==
  LET stopped == StopPolling(pollTimer, intervals)
      t == IF pollTimer # Null
           THEN StartPollingIfNeeded(stopped.pollTimer, stopped.intervals,
                                     registrations, ms)
           ELSE [pollTimer |-> pollTimer, intervals |-> intervals]
  IN /\ pollIntervalMs' = ms
     /\ pollTimer' = t.pollTimer
     /\ intervals' = t.intervals
     /\ UNCHANGED registrations
     /\ last' = [Obs("setPollingInterval") EXCEPT !.arg = ms]
     /\ UNCHANGED <<settings, cacheVars, polling, diffVars, debounceVars,
                    seedPending, tasks, now, consumerVars,
                 validations, bannerVars>>

\* ------------------------------------------------------------------------
\* Entries, clients, fetch operations
\* ------------------------------------------------------------------------
OkEntry(data, t) == [status |-> "ok", data |-> data, fetchedAt |-> t]
ErrEntry(error, t) == [status |-> "error", error |-> error, fetchedAt |-> t]

\* new HoyolabClient(auth)
NewClient(auth) == [auth |-> auth]

\* what an operation rejects with: a HoyolabApiError carrying a retcode, a
\* plain Error, or a value that is not an Error
ApiError(retcode) ==
  [class |-> "HoyolabApiError", retcode |-> retcode, message |-> "api"]
PlainError == [class |-> "Error", retcode |-> 0, message |-> "network"]
NonError == [class |-> "none", retcode |-> 0, message |-> "boom"]

\* isAuthError without the LOGIN_REQUIRED retcode
IsAuthErrorTwoCodes(error) ==
  /\ error.class = "HoyolabApiError"
  /\ error.retcode \in {INVALID_REQUEST, NOT_LOGGED_IN}

\* isAuthError: a HoyolabApiError with one of the three login retcodes
IsAuthError(error) ==
  /\ error.class = "HoyolabApiError"
  /\ error.retcode \in {INVALID_REQUEST, NOT_LOGGED_IN, LOGIN_REQUIRED}

\* isRateLimitError
IsRateLimitError(error) ==
  /\ error.class = "HoyolabApiError"
  /\ error.retcode = VISIT_TOO_FREQUENTLY

\* showDataError: what the key shows for an entry ("none": nothing, the
\* entry carries data)
ShowDataError(entry) ==
  IF entry.status # "error" THEN "none"
  ELSE IF IsAuthError(entry.error) THEN "noAuth"
  ELSE IF IsRateLimitError(entry.error) THEN "rateLimited"
  ELSE "error"

Fulfilled(value) == [status |-> "fulfilled", value |-> value, reason |-> PlainError]
Rejected(reason) == [status |-> "rejected", value |-> <<>>, reason |-> reason]

\* HoyolabClient.request after fetch(): fetch itself rejects when the
\* network is down, a status outside 2xx throws an Error, a retcode other
\* than SUCCESS throws a HoyolabApiError, otherwise the data is returned
ClientRequest(response) ==
  IF ~response.network THEN Rejected(PlainError)
  ELSE IF ~response.ok
  THEN Rejected([class |-> "Error", retcode |-> 0, message |-> "http"])
  ELSE IF response.retcode # SUCCESS THEN Rejected(ApiError(response.retcode))
  ELSE Fulfilled(response.data)

\* result.reason instanceof Error ? result.reason : new Error(String(reason))
ToError(reason) ==
  IF reason.class = "none"
  THEN [class |-> "Error", retcode |-> 0, message |-> reason.message]
  ELSE reason

\* the request a fetcher thunk performs; the check-in thunks take no uid
Request(client, uid, dataType) ==
  [cred |-> client.auth,
   uid |-> IF dataType[3] = "check-in" THEN Undefined ELSE uid]

\* getFetchers: the fixed table of a game, bound to a client and a uid
GetFetchers(game, client, uid) ==
  LET table == GAME_DATA_TYPES(game)
  IN [i \in 1..Len(table) |->
        [type |-> table[i], request |-> Request(client, uid, table[i])]]

\* a selection that walks the requested types and looks each up in the
\* table: a type requested twice is fetched twice
RECURSIVE LookupRequested(_, _)
LookupRequested(fetchers, requestedTypes) ==
  IF requestedTypes = <<>> THEN <<>>
  ELSE SelectSeq(fetchers, LAMBDA f : f.type = Head(requestedTypes))
         \o LookupRequested(fetchers, Tail(requestedTypes))

\* fetchAll, first half: the table entries whose key is requested
RECURSIVE FilterRequested(_, _)
FilterRequested(fetchers, requestedTypes) ==
  IF fetchers = <<>> THEN <<>>
  ELSE IF Includes(requestedTypes, Head(fetchers).type)
       THEN <<Head(fetchers)>> \o FilterRequested(Tail(fetchers), requestedTypes)
       ELSE FilterRequested(Tail(fetchers), requestedTypes)

\* Promise.all in the place of Promise.allSettled: one rejection rejects
\* the whole join
AllOrNothing(settled) ==
  [threw |-> \E k \in DOMAIN settled : settled[k].status = "rejected",
   settled |-> settled]

\* Promise.allSettled: every operation is awaited and reported on its own
AllSettled(settled) == [threw |-> FALSE, settled |-> settled]

\* fetchAll, second half: the map built from the settled operations, as
\* [threw, results]; results is the Map in insertion order
FetchAllResults(entries, outcomes, t) ==
  LET a == AllSettled(outcomes)
  IN IF a.threw THEN [threw |-> TRUE, results |-> <<>>]
     ELSE [threw |-> FALSE,
           results |->
             [i \in 1..Len(entries) |->
                [dataType |-> entries[i].type,
                 entry |-> IF a.settled[i].status = "fulfilled"
                           THEN OkEntry(a.settled[i].value, t)
                           ELSE ErrEntry(ToError(a.settled[i].reason), t)]]]

\* ------------------------------------------------------------------------
\* Store, listeners
\* ------------------------------------------------------------------------
\* Map.set on the store
\* a store that keeps the entry it holds unless the new one is more recent
StoreSetIfNewer(st, key, entry) ==
  IF key \in DOMAIN st /\ st[key].fetchedAt >= entry.fetchedAt THEN st
  ELSE [k \in DOMAIN st \cup {key} |-> IF k = key THEN entry ELSE st[k]]

\* a store that keeps the data it holds when the new entry is an error
StoreSetKeepsData(st, key, entry) ==
  IF key \in DOMAIN st /\ st[key].status = "ok" /\ entry.status = "error"
  THEN st
  ELSE [k \in DOMAIN st \cup {key} |-> IF k = key THEN entry ELSE st[k]]

\* getData: the cached entry, undefined when there is none
GetData(st, accountId, dataType) ==
  IF BuildStoreKey(accountId, dataType) \in DOMAIN st
  THEN st[BuildStoreKey(accountId, dataType)]
  ELSE Undefined

\* this.store.set(storeKey, entry)
StoreSet(st, key, entry) ==
  [k \in DOMAIN st \cup {key} |-> IF k = key THEN entry ELSE st[k]]

\* notifyListeners without its try/catch: the first listener that throws
\* ends the loop and the exception leaves notifyListeners
RECURSIVE NotifyUncaught(_, _, _, _)
NotifyUncaught(regs, accountId, dataType, entry) ==
  IF regs = <<>> THEN [calls |-> <<>>, threw |-> FALSE]
  ELSE LET reg == Head(regs)
           rest == NotifyUncaught(Tail(regs), accountId, dataType, entry)
           call == Call(reg, accountId, dataType, entry)
       IN IF reg.accountId # accountId THEN rest
          ELSE IF ~Includes(reg.dataTypes, dataType) THEN rest
          ELSE IF Throws(reg.listener)
          THEN [calls |-> <<call>>, threw |-> TRUE]
          ELSE [calls |-> <<call>> \o rest.calls, threw |-> rest.threw]

\* notifyListeners without the account test
RECURSIVE NotifyAnyAccount(_, _, _, _)
NotifyAnyAccount(regs, accountId, dataType, entry) ==
  IF regs = <<>> THEN [calls |-> <<>>, threw |-> FALSE]
  ELSE LET reg == Head(regs)
           rest == NotifyAnyAccount(Tail(regs), accountId, dataType, entry)
       IN IF ~Includes(reg.dataTypes, dataType) THEN rest
          ELSE [calls |-> <<Call(reg, accountId, dataType, entry)>> \o rest.calls,
                threw |-> rest.threw]

\* notifyListeners: every registration of the account that requests the data
\* type is called; a listener that throws is caught and logged
RECURSIVE NotifyListeners(_, _, _, _)
NotifyListeners(regs, accountId, dataType, entry) ==
  IF regs = <<>> THEN [calls |-> <<>>, threw |-> FALSE]
  ELSE LET reg == Head(regs)
           rest == NotifyListeners(Tail(regs), accountId, dataType, entry)
       IN IF reg.accountId # accountId THEN rest
          ELSE IF ~Includes(reg.dataTypes, dataType) THEN rest
          ELSE [calls |-> <<Call(reg, accountId, dataType, entry)>> \o rest.calls,
                threw |-> rest.threw]

\* the store + notify loop of fetchAndNotify, as [store, calls, writes, threw]
RECURSIVE Commit(_, _, _, _)
Commit(results, accountId, st, regs) ==
  IF results = <<>>
  THEN [store |-> st, calls |-> <<>>, writes |-> <<>>, threw |-> FALSE]
  ELSE LET r == Head(results)
           key == BuildStoreKey(accountId, r.dataType)
           st1 == StoreSet(st, key, r.entry)
           n == NotifyListeners(regs, accountId, r.dataType, r.entry)
           w == [key |-> key, entry |-> r.entry]
       IN IF n.threw
          THEN [store |-> st1, calls |-> n.calls, writes |-> <<w>>,
                threw |-> TRUE]
          ELSE LET rest == Commit(Tail(results), accountId, st1, regs)
               IN [store |-> rest.store, calls |-> n.calls \o rest.calls,
                   writes |-> <<w>> \o rest.writes, threw |-> rest.threw]

\* ------------------------------------------------------------------------
\* Demand
\* ------------------------------------------------------------------------
\* getActiveDataTypes: the requested types of one account and game, in the
\* order of a Set's insertion
GetActiveDataTypes(regs, accountId, game) ==
  Dedup(Flatten([i \in 1..Len(regs) |->
    IF regs[i].accountId # accountId THEN <<>>
    ELSE SelectIn(regs[i].dataTypes,
                  {dt \in Range(regs[i].dataTypes) :
                     StartsWith(dt, <<game>> \o Colon)})]))

\* getActiveAccountGames without its grouping: one (account, game) pair per
\* registration and game, so that a tick fetches once per registration
ActiveGamesPerRegistration(regs) ==
  Flatten([i \in 1..Len(regs) |->
    LET games == Dedup([j \in 1..Len(regs[i].dataTypes) |->
                          GameOf(regs[i].dataTypes[j])])
    IN [j \in 1..Len(games) |->
          [accountId |-> regs[i].accountId, game |-> games[j]]]])

\* getActiveAccountGames, flattened to the (account, game) pairs in the
\* order pollTick's two loops visit them
GetActiveAccountGames(regs) ==
  LET accounts == Dedup([i \in 1..Len(regs) |-> regs[i].accountId])
      gamesOf(a) == Dedup(Flatten([i \in 1..Len(regs) |->
                      IF regs[i].accountId # a THEN <<>>
                      ELSE [j \in 1..Len(regs[i].dataTypes) |->
                              GameOf(regs[i].dataTypes[j])]]))
  IN Flatten([k \in 1..Len(accounts) |->
       [j \in 1..Len(gamesOf(accounts[k])) |->
          [accountId |-> accounts[k], game |-> gamesOf(accounts[k])[j]]]])

\* ------------------------------------------------------------------------
\* getClient
\* ------------------------------------------------------------------------
\* a getClient without the cache: a client is built on every call
GetClientUncached(cache, account) ==
  [found |-> IsValidAuth(account.auth), client |-> NewClient(account.auth),
   cache |-> cache]

\* getClient, as [found, client, cache]
GetClient(cache, account) ==
  IF ~IsValidAuth(account.auth)
  THEN [found |-> FALSE, client |-> NewClient(account.auth), cache |-> cache]
  ELSE IF account.id \in DOMAIN cache
  THEN [found |-> TRUE, client |-> cache[account.id], cache |-> cache]
  ELSE [found |-> TRUE, client |-> NewClient(account.auth),
        cache |-> [k \in DOMAIN cache \cup {account.id} |->
                     IF k = account.id THEN NewClient(account.auth)
                     ELSE cache[k]]]

\* ------------------------------------------------------------------------
\* fetchAndNotify calls in flight
\* ------------------------------------------------------------------------
\* a call that awaits resolveAccount (pc "resolve") or fetchAll (pc "fetch")
Task(owner, accountId, game, dataTypes) ==
  [owner |-> owner, accountId |-> accountId, game |-> game,
   dataTypes |-> dataTypes, pc |-> "resolve",
   entries |-> <<>>, settled |-> <<>>]

RemoveAt(s, i) == SubSeq(s, 1, i - 1) \o SubSeq(s, i + 1, Len(s))

\* an in-flight flag that any returning call releases
PollingAfterAnyCall(i) == FALSE

\* the in-flight flag after call i has returned: pollTick's finally runs
\* when the last call of the tick has settled
PollingAfter(i) ==
  IF /\ tasks[i].owner = "tick"
     /\ \A j \in 1..Len(tasks) : j # i => tasks[j].owner # "tick"
  THEN FALSE
  ELSE polling

\* pollTick without its reentrancy guard
TickNeverSkipped(inFlight) == FALSE

\* pollTick's reentrancy guard
TickSkipped(inFlight) == inFlight

\* the calls pollTick makes: one per active (account, game) with demand
TickTasks(regs) ==
  LET pairs == GetActiveAccountGames(regs)
  IN Flatten([k \in 1..Len(pairs) |->
       LET typesNeeded == GetActiveDataTypes(regs, pairs[k].accountId,
                                             pairs[k].game)
       IN IF Len(typesNeeded) > 0
          THEN <<Task("tick", pairs[k].accountId, pairs[k].game, typesNeeded)>>
          ELSE <<>>])

\* the interval h fires: pollTick up to its await
TimerFire(h) ==
  /\ h \in DOMAIN intervals
  /\ IF TickSkipped(polling)
     THEN /\ last' = [Obs("pollTick") EXCEPT !.noop = TRUE]
          /\ UNCHANGED <<polling, tasks>>
     ELSE LET new == TickTasks(registrations)
          IN /\ Len(tasks) + Len(new) <= MaxTasks
             /\ tasks' = tasks \o new
             /\ polling' = (Len(new) > 0)
             /\ last' = [Obs("pollTick") EXCEPT !.arg = new]
  /\ UNCHANGED <<settings, registryVars, cacheVars, diffVars, debounceVars,
                 seedPending, now, consumerVars,
                 validations, bannerVars>>

\* requestUpdate up to its await
RequestUpdate(accountId, game) ==
  LET typesNeeded == GetActiveDataTypes(registrations, accountId, game)
  IN /\ IF Len(typesNeeded) = 0
        THEN /\ last' = [Obs("requestUpdate") EXCEPT !.noop = TRUE]
             /\ UNCHANGED tasks
        ELSE /\ Len(tasks) < MaxTasks
             /\ tasks' = Append(tasks, Task("request", accountId, game,
                                            typesNeeded))
             /\ last' = [Obs("requestUpdate") EXCEPT
                           !.arg = <<accountId, game>>]
     /\ UNCHANGED <<settings, registryVars, cacheVars, polling, diffVars,
                    debounceVars, seedPending, now,
                    consumerVars,
                 validations, bannerVars>>

\* fetchAndNotify without its uid check: the fetch starts with no uid
NoUidIgnored(uid) == FALSE

\* !uid, for account.uids[game]
NoUid(uid) == uid \in {Undefined, ""}

\* call i resumes after resolveAccount: account, client and uid are looked
\* up and fetchAll starts the requested operations
ResolveAccount(i) ==
  /\ i \in 1..Len(tasks)
  /\ tasks[i].pc = "resolve"
  /\ LET task == tasks[i]
         skip == /\ tasks' = RemoveAt(tasks, i)
                 /\ polling' = PollingAfter(i)
                 /\ last' = [Obs("skipFetch") EXCEPT !.arg = task]
     IN IF task.accountId \notin DOMAIN settings.accounts
        THEN skip /\ UNCHANGED clientCache
        ELSE LET account == settings.accounts[task.accountId]
                 c == GetClient(clientCache, account)
                 uid == account.uids[task.game]
             IN /\ clientCache' = c.cache
                /\ IF ~c.found \/ NoUid(uid)
                   THEN skip
                   ELSE LET entries == FilterRequested(
                                GetFetchers(task.game, c.client, uid),
                                task.dataTypes)
                        IN IF entries = <<>>
                           THEN /\ tasks' = RemoveAt(tasks, i)
                                /\ polling' = PollingAfter(i)
                                /\ last' = [Obs("commit") EXCEPT !.arg = task]
                           ELSE /\ tasks' = [tasks EXCEPT ![i].pc = "fetch",
                                                          ![i].entries = entries]
                                /\ UNCHANGED polling
                                /\ last' = [Obs("startFetch") EXCEPT
                                              !.arg = task,
                                              !.fetches = entries]
  /\ UNCHANGED <<settings, registryVars, store, diffVars, debounceVars,
                 seedPending, now, consumerVars,
                 validations, bannerVars>>

\* a join that lets a rejected call skip the reset of the flag (Promise.all
\* and no finally)
PollingKeptOnRejection(i) == polling

\* the in-flight flag after call i has rejected: Promise.allSettled absorbs
\* the rejection and the finally runs as for a call that returned
PollingAfterRejection(i) == PollingAfter(i)

\* call i resumes after resolveAccount with an exception: getGlobalSettings
\* rejected, fetchAndNotify has no handler and rejects
ResolveAccountRejects(i) ==
  /\ i \in 1..Len(tasks)
  /\ tasks[i].pc = "resolve"
  /\ tasks' = RemoveAt(tasks, i)
  /\ polling' = PollingAfterRejection(i)
  /\ last' = [Obs("rejectFetch") EXCEPT !.arg = tasks[i], !.rejected = TRUE]
  /\ UNCHANGED <<settings, registryVars, cacheVars, diffVars, debounceVars,
                 seedPending, now, consumerVars,
                 validations, bannerVars>>

\* the outcomes operation k of call i can settle with
OutcomesOf(i, k, reasons) ==
  IF i \in 1..Len(tasks) /\ k \in 1..Len(tasks[i].entries)
  THEN {Fulfilled(tasks[i].entries[k].request)}
         \cup {Rejected(r) : r \in reasons}
  ELSE {}

\* operation k of call i settles; when it was the last one fetchAll returns
\* and fetchAndNotify stores and notifies
\* a fetchAndNotify that stores and delivers each entry as soon as its
\* operation settles, without waiting for the siblings
SettleOpEager(i, k, outcome) ==
  /\ i \in 1..Len(tasks)
  /\ tasks[i].pc = "fetch"
  /\ k \in 1..Len(tasks[i].entries)
  /\ k \notin DOMAIN tasks[i].settled
  /\ LET task == tasks[i]
         settled == [j \in DOMAIN task.settled \cup {k} |->
                       IF j = k THEN outcome ELSE task.settled[j]]
     IN \E f \in {FetchAllResults(<<task.entries[k]>>, <<outcome>>, now)} :
        \E c \in {Commit(f.results, task.accountId, store, registrations)} :
          /\ store' = c.store
          /\ IF DOMAIN settled # 1..Len(task.entries)
             THEN /\ tasks' = [tasks EXCEPT ![i].settled = settled]
                  /\ UNCHANGED polling
                  /\ last' = [Obs("settle") EXCEPT
                                !.arg = task,
                                !.calls = c.calls,
                                !.writes = c.writes]
             ELSE /\ tasks' = RemoveAt(tasks, i)
                  /\ polling' = PollingAfter(i)
                  /\ last' = [Obs("commit") EXCEPT
                                !.arg = task,
                                !.calls = c.calls,
                                !.writes = c.writes,
                                !.results = f.results,
                                !.settled = settled]
  /\ UNCHANGED <<settings, registryVars, clientCache, diffVars, debounceVars,
                 seedPending, now, consumerVars,
                 validations, bannerVars>>

SettleOp(i, k, outcome) ==
  /\ i \in 1..Len(tasks)
  /\ tasks[i].pc = "fetch"
  /\ k \in 1..Len(tasks[i].entries)
  /\ k \notin DOMAIN tasks[i].settled
  /\ LET task == tasks[i]
         settled == [j \in DOMAIN task.settled \cup {k} |->
                       IF j = k THEN outcome ELSE task.settled[j]]
     IN IF DOMAIN settled # 1..Len(task.entries)
        THEN /\ tasks' = [tasks EXCEPT ![i].settled = settled]
             /\ last' = [Obs("settle") EXCEPT !.arg = task]
             /\ UNCHANGED <<store, polling>>
        ELSE \E f \in {FetchAllResults(task.entries, settled, now)} :
             \E c \in {Commit(f.results, task.accountId, store,
                               registrations)} :
                /\ tasks' = RemoveAt(tasks, i)
                /\ polling' = PollingAfter(i)
                /\ store' = c.store
                /\ last' = [Obs("commit") EXCEPT
                              !.arg = task,
                              !.calls = c.calls,
                              !.writes = c.writes,
                              !.results = f.results,
                              !.settled = settled,
                              !.replaced = {key \in DOMAIN store :
                                              c.store[key] # store[key]},
                              !.rejected = f.threw \/ c.threw]
  /\ UNCHANGED <<settings, registryVars, clientCache, diffVars, debounceVars,
                 seedPending, now, consumerVars,
                 validations, bannerVars>>

\* time passes
AdvanceClock ==
  /\ now < MaxNow
  /\ now' = now + 1
  /\ last' = Obs("clock")
  /\ UNCHANGED <<settings, registryVars, cacheVars, polling, diffVars,
                 debounceVars, seedPending, tasks,
                 consumerVars,
                 validations, bannerVars>>

\* ------------------------------------------------------------------------
\* Invalidation and the global settings diff
\* ------------------------------------------------------------------------
\* invalidateAccount with the prefix test on the bare account id, without
\* the separating colon
InvalidateByBareId(accountId, c) ==
  [clientCache |-> [k \in DOMAIN c.clientCache \ {accountId} |->
                      c.clientCache[k]],
   store |-> [k \in {key \in DOMAIN c.store :
                       ~StartsWith(key, accountId)} |-> c.store[k]]]

\* invalidateAccount on c = [store, clientCache]
InvalidateAccount(accountId, c) ==
  [clientCache |-> [k \in DOMAIN c.clientCache \ {accountId} |->
                      c.clientCache[k]],
   store |-> [k \in {key \in DOMAIN c.store :
                       ~StartsWith(key, accountId \o Colon)} |-> c.store[k]]]

\* invalidation that has not reached the store when the entries are read:
\* the clients of S are dropped, the entries are still there
InvalidateEachLate(S, c) ==
  [clientCache |-> [k \in DOMAIN c.clientCache \ S |-> c.clientCache[k]],
   store |-> c.store]

\* invalidateAccount for each account of S
RECURSIVE InvalidateEach(_, _)
InvalidateEach(S, c) ==
  IF S = {} THEN c
  ELSE LET a == CHOOSE x \in S : TRUE
       IN InvalidateEach(S \ {a}, InvalidateAccount(a, c))

\* authEqual on the three required fields only
AuthEqualRequiredOnly(a, b) ==
  /\ a.ltoken_v2 = b.ltoken_v2
  /\ a.ltuid_v2 = b.ltuid_v2
  /\ a.ltmid_v2 = b.ltmid_v2

\* authEqual
AuthEqual(a, b) ==
  /\ a.ltoken_v2 = b.ltoken_v2
  /\ a.ltuid_v2 = b.ltuid_v2
  /\ a.ltmid_v2 = b.ltmid_v2
  /\ a.cookie_token_v2 = b.cookie_token_v2
  /\ a.account_mid_v2 = b.account_mid_v2
  /\ a.account_id_v2 = b.account_id_v2

\* onGlobalSettingsChanged without its first loop: a deleted account keeps
\* its entries and its client
DeletedAccountsIgnored(oldAccounts, newAccounts) == {}

\* the accounts onGlobalSettingsChanged invalidates: those of the first
\* loop (deleted) and those of the second loop (auth changed)
DeletedAccounts(oldAccounts, newAccounts) ==
  {a \in DOMAIN oldAccounts : a \notin DOMAIN newAccounts}

\* the second loop comparing whole account objects instead of their auth
AnyChangeAccounts(oldAccounts, newAccounts) ==
  {a \in DOMAIN newAccounts :
     /\ a \in DOMAIN oldAccounts
     /\ oldAccounts[a] # newAccounts[a]}

AuthChangedAccounts(oldAccounts, newAccounts) ==
  {a \in DOMAIN newAccounts :
     /\ a \in DOMAIN oldAccounts
     /\ ~AuthEqual(oldAccounts[a].auth, newAccounts[a].auth)}

\* renotifyAll that returns after the first registration
RenotifyFirstRegistration(regs, st) ==
  IF regs = <<>> THEN <<>>
  ELSE ReplayCalls(regs[1], regs[1].dataTypes, st)

\* renotifyAll: the cached entries of every registration, pushed again
RenotifyAll(regs, st) ==
  Flatten([i \in 1..Len(regs) |-> ReplayCalls(regs[i], regs[i].dataTypes, st)])

\* the four rendering preferences of s, `??` applied (lines 315, 321-323)
Preferences(s) ==
  [disableAnimations |-> OrDefault(s.disableAnimations, FALSE),
   bannerBadgePosition |-> OrDefault(s.bannerBadgePosition, "center"),
   bannerBadgeLayout |-> OrDefault(s.bannerBadgeLayout, "horizontal"),
   bannerBadgeFontSize |-> OrDefault(s.bannerBadgeFontSize,
                                     DefaultBadgeFontSize)]

\* the comparison without `?? false`: an absent preference differs from false
AnimationsChangedRaw(s, prevAnim) ==
  s.disableAnimations # {prevAnim}

\* the preference comparison of onGlobalSettingsChanged
AnimationsChanged(s, prevAnim) ==
  OrDefault(s.disableAnimations, FALSE) # prevAnim

BadgeChanged(s, prevPos, prevLayout, prevSize) ==
  \/ OrDefault(s.bannerBadgePosition, "center") # prevPos
  \/ OrDefault(s.bannerBadgeLayout, "horizontal") # prevLayout
  \/ OrDefault(s.bannerBadgeFontSize, DefaultBadgeFontSize) # prevSize

\* onGlobalSettingsChanged(s)
OnGlobalSettingsChanged(s) ==
  LET newAccounts == s.accounts
      oldAccounts == IF previousAccounts.defined THEN previousAccounts.value
                     ELSE EmptyMap
      inv == DeletedAccounts(oldAccounts, newAccounts)
               \cup AuthChangedAccounts(oldAccounts, newAccounts)
      c == InvalidateEach(inv, [store |-> store, clientCache |-> clientCache])
      anim == AnimationsChanged(s, previousDisableAnimations)
      badge == BadgeChanged(s, previousBannerBadgePosition,
                            previousBannerBadgeLayout,
                            previousBannerBadgeFontSize)
  IN /\ previousAccounts' = [defined |-> TRUE, value |-> newAccounts]
     /\ store' = c.store
     /\ clientCache' = c.clientCache
     /\ previousDisableAnimations' =
          IF anim THEN OrDefault(s.disableAnimations, FALSE)
          ELSE previousDisableAnimations
     /\ previousBannerBadgePosition' =
          IF badge THEN OrDefault(s.bannerBadgePosition, "center")
          ELSE previousBannerBadgePosition
     /\ previousBannerBadgeLayout' =
          IF badge THEN OrDefault(s.bannerBadgeLayout, "horizontal")
          ELSE previousBannerBadgeLayout
     /\ previousBannerBadgeFontSize' =
          IF badge THEN OrDefault(s.bannerBadgeFontSize, DefaultBadgeFontSize)
          ELSE previousBannerBadgeFontSize
     /\ last' = [Obs("diff") EXCEPT
                   !.invalidated = inv,
                   !.calls = IF anim \/ badge
                             THEN RenotifyAll(registrations, c.store)
                             ELSE <<>>,
                   !.arg = [old |-> oldAccounts, new |-> s,
                            renotify |-> anim \/ badge,
                            removed |-> DOMAIN store \ DOMAIN c.store,
                            burst |-> IF last.op = "didReceiveGlobalSettings"
                                      THEN last.arg.burst ELSE 0,
                            overrides |->
                              /\ last.op = "didReceiveGlobalSettings"
                              /\ last.arg.overrides]]

\* invalidateAccount called through the controller's public interface
InvalidateAccountCall(accountId) ==
  LET c == InvalidateAccount(accountId,
                             [store |-> store, clientCache |-> clientCache])
  IN /\ store' = c.store
     /\ clientCache' = c.clientCache
     /\ last' = [Obs("invalidateAccount") EXCEPT
                   !.invalidated = {accountId},
                   !.arg = [accountId |-> accountId,
                            removed |-> DOMAIN store \ DOMAIN c.store]]
     /\ UNCHANGED <<settings, registryVars, polling, diffVars, debounceVars,
                    seedPending, tasks, now, consumerVars,
                 validations, bannerVars>>

\* getClient called by an action for the account it resolved from the
\* global settings (BaseAction.getClientForAccount)
GetClientCall(accountId) ==
  /\ accountId \in DOMAIN settings.accounts
  /\ \E c \in {GetClient(clientCache, settings.accounts[accountId])} :
       /\ clientCache' = c.cache
       /\ last' = [Obs("getClient") EXCEPT
                     !.arg = [accountId |-> accountId,
                              account |-> settings.accounts[accountId],
                              found |-> c.found,
                              client |-> IF c.found THEN c.client ELSE Null,
                              constructed |-> c.cache # clientCache]]
  /\ UNCHANGED <<settings, registryVars, store, polling, diffVars,
                 debounceVars, seedPending, tasks, now,
                 consumerVars,
                 validations, bannerVars>>

\* ------------------------------------------------------------------------
\* BaseAction: the consumer's appear / settings-change / disappear handlers
\* ------------------------------------------------------------------------
\* a handler suspended at `await this.resolveAccount(settings)`; its settings
\* carry an accountId (the V2 path of resolveAccount)
Handler(kind, actionId, accountId, game, dataTypes) ==
  [kind |-> kind, actionId |-> actionId, accountId |-> accountId,
   game |-> game, dataTypes |-> dataTypes]

\* dataController.unregister, as [registrations, pollTimer, intervals]
UnregisterIn(r, actionId) ==
  LET regs == MapDelete(r.registrations, actionId)
      t == IF Len(regs) = 0 THEN StopPolling(r.pollTimer, r.intervals)
           ELSE [pollTimer |-> r.pollTimer, intervals |-> r.intervals]
  IN [registrations |-> regs, pollTimer |-> t.pollTimer,
      intervals |-> t.intervals]

\* dataController.register, as [registrations, pollTimer, intervals]
RegisterIn(r, reg) ==
  IF SameRegistration(r.registrations, reg) THEN r
  ELSE LET regs == MapSet(r.registrations, reg)
           t == StartPollingIfNeeded(r.pollTimer, r.intervals, regs,
                                     pollIntervalMs)
       IN [registrations |-> regs, pollTimer |-> t.pollTimer,
           intervals |-> t.intervals]

\* the cold-start calls of that register
RegisterCalls(r, reg, st) ==
  IF SameRegistration(r.registrations, reg) THEN <<>>
  ELSE ReplayCalls(reg, reg.dataTypes, st)

\* requestUpdate up to its await, as the calls in flight afterwards
RequestUpdateIn(ts, regs, accountId, game) ==
  LET typesNeeded == GetActiveDataTypes(regs, accountId, game)
  IN IF Len(typesNeeded) = 0 THEN ts
     ELSE Append(ts, Task("request", accountId, game, typesNeeded))

\* onDidReceiveSettings that always re-registers
NeverSkipsReregistration(regs, reg) == FALSE

\* the test of onDidReceiveSettings that skips the re-registration
SkipsReregistration(regs, reg) ==
  /\ HasReg(regs, reg.actionId)
  /\ LET existing == GetReg(regs, reg.actionId)
     IN /\ existing.accountId = reg.accountId
        /\ Len(existing.dataTypes) = Len(reg.dataTypes)
        /\ \A i \in 1..Len(existing.dataTypes) :
              existing.dataTypes[i] = reg.dataTypes[i]

\* what a resumed handler does, given the account it resolved:
\* [outcome, r, calls, tasks]
HandlerEffect(h) ==
  LET r0 == [registrations |-> registrations, pollTimer |-> pollTimer,
             intervals |-> intervals]
      gone == IF h.kind = "settings" THEN UnregisterIn(r0, h.actionId)
              ELSE r0
      reg == Registration(h.actionId, h.accountId, h.dataTypes, "l1")
      stay(outcome, r) == [outcome |-> outcome, r |-> r, calls |-> <<>>,
                           tasks |-> tasks]
  IN IF h.accountId \notin DOMAIN settings.accounts
     THEN stay("noAccount", gone)
     ELSE IF NoUid(settings.accounts[h.accountId].uids[h.game])
     THEN stay("noUid", gone)
     ELSE IF h.kind = "settings" /\ SkipsReregistration(registrations, reg)
     THEN stay("kept", r0)
     ELSE LET r1 == RegisterIn(gone, reg)
          IN [outcome |-> "registered", r |-> r1,
              calls |-> RegisterCalls(gone, reg, store),
              tasks |-> RequestUpdateIn(tasks, r1.registrations,
                                        h.accountId, h.game)]

\* onWillAppear up to its await
OnWillAppear(id, accountId, game, dataTypes) ==
  /\ id \notin visible
  /\ Len(handlers) < MaxHandlers
  /\ handlers' = Append(handlers,
                        Handler("appear", id, accountId, game, dataTypes))
  /\ visible' = visible \cup {id}
  /\ last' = [Obs("willAppear") EXCEPT !.arg = id]
  /\ UNCHANGED <<settings, registryVars, cacheVars, polling, diffVars,
                 debounceVars, seedPending, tasks, now,
                 validations, bannerVars>>

\* onDidReceiveSettings up to its await
OnDidReceiveSettings(id, accountId, game, dataTypes) ==
  /\ id \in visible
  /\ Len(handlers) < MaxHandlers
  /\ handlers' = Append(handlers,
                        Handler("settings", id, accountId, game, dataTypes))
  /\ last' = [Obs("didReceiveSettings") EXCEPT !.arg = id]
  /\ UNCHANGED <<settings, registryVars, cacheVars, polling, diffVars,
                 debounceVars, seedPending, tasks, now, visible,
                 validations, bannerVars>>

\* onWillDisappear
OnWillDisappear(id) ==
  /\ id \in visible
  /\ \E r \in {UnregisterIn([registrations |-> registrations,
                             pollTimer |-> pollTimer,
                             intervals |-> intervals], id)} :
       /\ registrations' = r.registrations
       /\ pollTimer' = r.pollTimer
       /\ intervals' = r.intervals
  /\ visible' = visible \ {id}
  /\ last' = [Obs("willDisappear") EXCEPT !.arg = id]
  /\ UNCHANGED <<settings, pollIntervalMs, cacheVars, polling, diffVars,
                 debounceVars, seedPending, tasks, now, handlers,
                 validations, bannerVars>>

\* handler i resumes after resolveAccount and runs to its next await: the
\* rest of onWillAppear or of onDidReceiveSettings
HandlerResume(i) ==
  /\ i \in 1..Len(handlers)
  /\ Cardinality(DOMAIN intervals) < MaxHandles
  /\ \E e \in {HandlerEffect(handlers[i])} :
       /\ Len(e.tasks) <= MaxTasks
       /\ registrations' = e.r.registrations
       /\ pollTimer' = e.r.pollTimer
       /\ intervals' = e.r.intervals
       /\ tasks' = e.tasks
       /\ last' = [Obs("resumeHandler") EXCEPT
                     !.calls = e.calls,
                     !.arg = [handler |-> handlers[i],
                              outcome |-> e.outcome]]
  /\ handlers' = RemoveAt(handlers, i)
  /\ UNCHANGED <<settings, pollIntervalMs, cacheVars, polling, diffVars,
                 debounceVars, seedPending, now, visible,
                 validations, bannerVars>>

\* the handler without its clearTimeout: the pending timeout stays armed
ClearTimeoutNever(ts, h) == ts

\* if (this.settingsDebounceTimer) clearTimeout(this.settingsDebounceTimer)
ClearTimeout(ts, h) ==
  IF h # Null /\ h \in DOMAIN ts THEN Disarm(ts, h) ELSE ts

\* ------------------------------------------------------------------------
\* BaseBannerAction: the per-key state and the blink animation
\* ------------------------------------------------------------------------
\* BannerKeyState; a null currentAccountId is the empty string (the code
\* tests it for truthiness only)
BannerKeyState(index, accountId, timeout, generation) ==
  [bannerIndex |-> index, currentAccountId |-> accountId,
   blinkTimeout |-> timeout, blinkGeneration |-> generation]

\* getKeyState: the state of the key, created on first use
GetKeyState(ks, actionId) ==
  IF actionId \in DOMAIN ks THEN ks[actionId]
  ELSE BannerKeyState(0, <<>>, Null, 0)

\* the keyStates Map once the state object of the key has been written to
SetKeyState(ks, actionId, state) ==
  [k \in DOMAIN ks \cup {actionId} |-> IF k = actionId THEN state ELSE ks[k]]

\* clearBlinkAnimation, as [state, timers]
ClearBlinkAnimation(state, timers) ==
  [state |-> [state EXCEPT !.blinkGeneration = @ + 1,
                           !.blinkTimeout = Null],
   timers |-> ClearTimeout(timers, state.blinkTimeout)]

\* showClosed or showOpen of one startBlinkAnimation call, armed in the
\* runtime: the key, the generation it captured, and the frame it shows
BlinkClosure(actionId, generation, frame) ==
  [actionId |-> actionId, generation |-> generation, frame |-> frame]

\* startBlinkAnimation, as [state, timers]: the handle of the new timeout
\* replaces state.blinkTimeout, whatever it held
StartBlinkAnimation(actionId, state, timers) ==
  IF previousDisableAnimations THEN [state |-> state, timers |-> timers]
  ELSE LET h == FreshHandle(timers)
       IN [state |-> [state EXCEPT !.blinkTimeout = h],
           timers |-> Arm(timers, h,
                          BlinkClosure(actionId, state.blinkGeneration,
                                       "closed"))]

\* a banner handler suspended at an await: onKeyDown at resolveAccount
\* (pc "resolve"), or onDataUpdate / onKeyDown inside renderCalendar and
\* displayBanner (pc "render")
Render(pc, actionId, accountId, game) ==
  [pc |-> pc, actionId |-> actionId, accountId |-> accountId, game |-> game]

\* entry?.status === 'ok' of onKeyDown
CachedOk(st, accountId, dataType) ==
  /\ BuildStoreKey(accountId, dataType) \in DOMAIN st
  /\ st[BuildStoreKey(accountId, dataType)].status = "ok"

\* onDataUpdate up to its first await
OnDataUpdate(id, accountId, entry) ==
  /\ \E c \in {ClearBlinkAnimation(GetKeyState(keyStates, id),
                                   blinkTimers)} :
       /\ c.state.blinkGeneration <= MaxGeneration
       /\ blinkTimers' = c.timers
       /\ IF entry.status = "error"
          THEN /\ keyStates' = SetKeyState(keyStates, id, c.state)
               /\ renders' = renders
               /\ last' = [Obs("dataUpdate") EXCEPT
                             !.arg = [actionId |-> id,
                                      shown |-> ShowDataError(entry)]]
          ELSE /\ keyStates' =
                    SetKeyState(keyStates, id,
                                [c.state EXCEPT
                                   !.currentAccountId = accountId])
               /\ renders' = Append(renders,
                                    Render("render", id, accountId, "gi"))
               /\ last' = [Obs("dataUpdate") EXCEPT
                             !.arg = [actionId |-> id, shown |-> "none"]]
  /\ UNCHANGED <<settings, registryVars, cacheVars, polling, diffVars,
                 debounceVars, seedPending, tasks, now, consumerVars,
                 validations>>

\* onKeyDown up to its first await; the key's settings name accountId
OnKeyDown(id, accountId, game, dataType) ==
  /\ \E c \in {ClearBlinkAnimation(GetKeyState(keyStates, id),
                                   blinkTimers)} :
       LET state == [c.state EXCEPT !.bannerIndex = @ + 1]
           cached == /\ Len(state.currentAccountId) > 0
                     /\ CachedOk(store, state.currentAccountId, dataType)
       IN /\ state.blinkGeneration <= MaxGeneration
          /\ blinkTimers' = c.timers
          /\ keyStates' = SetKeyState(keyStates, id, state)
          /\ renders' =
               Append(renders,
                      Render(IF cached THEN "render" ELSE "resolve",
                             id, accountId, game))
          /\ last' = [Obs("keyDown") EXCEPT
                        !.arg = [actionId |-> id, cached |-> cached]]
  /\ UNCHANGED <<settings, registryVars, cacheVars, polling, diffVars,
                 debounceVars, seedPending, tasks, now, consumerVars,
                 validations>>

\* onKeyDown resumes after resolveAccount: the fallback requestUpdate
KeyDownResume(i) ==
  /\ i \in 1..Len(renders)
  /\ renders[i].pc = "resolve"
  /\ IF renders[i].accountId \in DOMAIN settings.accounts
     THEN /\ tasks' = RequestUpdateIn(tasks, registrations,
                                      renders[i].accountId, renders[i].game)
          /\ Len(tasks') <= MaxTasks
     ELSE tasks' = tasks
  /\ renders' = RemoveAt(renders, i)
  /\ last' = [Obs("resumeKeyDown") EXCEPT
                !.arg = [actionId |-> renders[i].actionId,
                         resolved |-> renders[i].accountId
                                        \in DOMAIN settings.accounts]]
  /\ UNCHANGED <<settings, registryVars, cacheVars, polling, diffVars,
                 debounceVars, seedPending, now, consumerVars, validations,
                 keyStates, blinkTimers>>

\* a render resumes in displayBanner after `await action.setImage(...)` and
\* runs to its end; blinks: the item shown is a character that has a local
\* closed-eyes image
DisplayBannerReturn(i, blinks) ==
  /\ i \in 1..Len(renders)
  /\ renders[i].pc = "render"
  /\ Cardinality(DOMAIN blinkTimers) <= MaxHandles
  /\ \E b \in {IF blinks
               THEN StartBlinkAnimation(
                      renders[i].actionId,
                      GetKeyState(keyStates, renders[i].actionId),
                      blinkTimers)
               ELSE [state |-> GetKeyState(keyStates, renders[i].actionId),
                     timers |-> blinkTimers]} :
       /\ keyStates' = SetKeyState(keyStates, renders[i].actionId, b.state)
       /\ blinkTimers' = b.timers
       /\ last' = [Obs("displayBanner") EXCEPT
                     !.arg = [actionId |-> renders[i].actionId,
                              started |-> b.timers # blinkTimers]]
  /\ renders' = RemoveAt(renders, i)
  /\ UNCHANGED <<settings, registryVars, cacheVars, polling, diffVars,
                 debounceVars, seedPending, tasks, now, consumerVars,
                 validations>>

\* the blink timeout h fires: showClosed or showOpen runs
BlinkFire(h) ==
  /\ h \in DOMAIN blinkTimers
  /\ LET closure == blinkTimers[h]
         state == keyStates[closure.actionId]
         rest == Disarm(blinkTimers, h)
     IN IF state.blinkGeneration # closure.generation
        THEN /\ blinkTimers' = rest
             /\ keyStates' = keyStates
             /\ last' = [Obs("blink") EXCEPT
                           !.arg = [closure |-> closure,
                                    setImage |-> FALSE]]
        ELSE \E n \in {FreshHandle(rest)} :
               /\ blinkTimers' =
                    Arm(rest, n,
                        [closure EXCEPT
                           !.frame = IF @ = "closed" THEN "open"
                                     ELSE "closed"])
               /\ keyStates' =
                    SetKeyState(keyStates, closure.actionId,
                                [state EXCEPT !.blinkTimeout = n])
               /\ last' = [Obs("blink") EXCEPT
                             !.arg = [closure |-> closure,
                                      setImage |-> TRUE]]
  /\ renders' = renders
  /\ UNCHANGED <<settings, registryVars, cacheVars, polling, diffVars,
                 debounceVars, seedPending, tasks, now, consumerVars,
                 validations>>

\* ------------------------------------------------------------------------
\* Auth validator
\* ------------------------------------------------------------------------
\* no game role linked
UidsNone == [g \in GameIds |-> Undefined]

\* how the awaited part of validateAccount ends: getCheckInInfo rejects, or
\* it fulfils and fetchGameRoles returns the linked roles (none when the
\* record card call failed)
ValidationOutcomes ==
  {[valid |-> FALSE, uids |-> UidsNone]}
    \cup {[valid |-> TRUE, uids |-> u] : u \in {UidsBoth, UidsGiOther, UidsNone}}

\* { ...settings, pendingValidation: undefined }
ClearPending(snapshot) == [snapshot EXCEPT !.pendingValidation = {}]

\* the write-back of validateAccount: the snapshot it was called with, the
\* validated account updated, the pending flag cleared
WriteBack(snapshot, accountId, authStatus, uids) ==
  [snapshot EXCEPT
     !.accounts[accountId].authStatus = authStatus,
     !.accounts[accountId].uids = uids,
     !.accounts[accountId].nicknames = NicknamesOf(uids),
     !.pendingValidation = {}]

\* what validateAccount writes when its awaits are over
WriteBackOf(snapshot, outcome) ==
  LET accountId == CHOOSE a \in snapshot.pendingValidation : TRUE
      account == snapshot.accounts[accountId]
  IN IF outcome.valid
     THEN WriteBack(snapshot, accountId, "valid", outcome.uids)
     ELSE WriteBack(snapshot, accountId, "invalid", account.uids)

\* the handler of registerAuthValidator and validateAccount up to its first
\* await, as [kind, written]: "none" (no pending flag), "write" (the
\* settings are written at once: account missing, or credentials that fail
\* isValidAuth) or "await" (the service is asked)
ValidateAccountStart(s) ==
  IF s.pendingValidation = {} THEN [kind |-> "none", written |-> s]
  ELSE LET accountId == CHOOSE a \in s.pendingValidation : TRUE
       IN IF accountId \notin DOMAIN s.accounts
          THEN [kind |-> "write", written |-> ClearPending(s)]
          ELSE IF ~IsValidAuth(s.accounts[accountId].auth)
          THEN [kind |-> "write",
                written |-> WriteBack(s, accountId, "invalid",
                                      s.accounts[accountId].uids)]
          ELSE [kind |-> "await", written |-> s]

\* validateAccount call i resumes after getCheckInInfo and fetchGameRoles
\* and writes the settings back
ValidateAccountReturn(i, outcome) ==
  /\ i \in 1..Len(validations)
  /\ settings' = WriteBackOf(validations[i].settings, outcome)
  /\ validations' = RemoveAt(validations, i)
  /\ last' = [Obs("validated") EXCEPT
                !.arg = [snapshot |-> validations[i].settings,
                         current |-> settings,
                         outcome |-> outcome]]
  /\ UNCHANGED <<registryVars, cacheVars, polling, diffVars, debounceVars,
                 seedPending, tasks, now, consumerVars, bannerVars>>

\* Stream Deck stores new global settings and pushes them: the handler of
\* registerAuthValidator starts a validation when the settings carry the
\* pending flag, and the handler of
\* onDidReceiveGlobalSettings re-arms the debounce timeout.  The observation
\* counts the pushes of an uninterrupted burst (1, or 2 for two and more)
\* and tells whether the push it supersedes carried other preferences.
OnDidReceiveGlobalSettings(s) ==
  /\ LET v == ValidateAccountStart(s)
     IN /\ settings' = v.written
        /\ IF v.kind = "await"
           THEN /\ Len(validations) < MaxValidations
                /\ validations' = Append(validations, [settings |-> s])
           ELSE validations' = validations
  /\ LET cleared == ClearTimeout(timeouts, settingsDebounceTimer)
         h == FreshHandle(cleared)
     IN /\ Cardinality(DOMAIN cleared) < MaxHandles
        /\ timeouts' = Arm(cleared, h, [settings |-> s,
                                        delay |-> SETTINGS_DEBOUNCE_MS])
        /\ settingsDebounceTimer' = h
  /\ last' = [Obs("didReceiveGlobalSettings") EXCEPT
                !.arg = [new |-> s,
                         burst |-> IF last.op = "didReceiveGlobalSettings"
                                      /\ timeouts # EmptyMap
                                   THEN 2 ELSE 1,
                         overrides |->
                           /\ settingsDebounceTimer # Null
                           /\ settingsDebounceTimer \in DOMAIN timeouts
                           /\ Preferences(
                                timeouts[settingsDebounceTimer].settings)
                                # Preferences(s)]]
  /\ UNCHANGED <<registryVars, cacheVars, polling, diffVars, seedPending,
                 tasks, now, consumerVars, bannerVars>>

\* the timeout h fires after SETTINGS_DEBOUNCE_MS: the diff pass
DebounceFire(h) ==
  /\ h \in DOMAIN timeouts
  /\ settingsDebounceTimer' = Null
  /\ timeouts' = Disarm(timeouts, h)
  /\ OnGlobalSettingsChanged(timeouts[h].settings)
  /\ UNCHANGED <<settings, registryVars, polling, seedPending, tasks, now,
                 consumerVars,
                 validations, bannerVars>>

\* init's getGlobalSettings() resolves and seeds the previous values
SeedResolve ==
  /\ seedPending
  /\ seedPending' = FALSE
  /\ previousDisableAnimations' = OrDefault(settings.disableAnimations, FALSE)
  /\ previousBannerBadgePosition' =
       OrDefault(settings.bannerBadgePosition, "center")
  /\ previousBannerBadgeLayout' =
       OrDefault(settings.bannerBadgeLayout, "horizontal")
  /\ previousBannerBadgeFontSize' =
       OrDefault(settings.bannerBadgeFontSize, DefaultBadgeFontSize)
  /\ previousAccounts' = [defined |-> TRUE, value |-> settings.accounts]
  /\ last' = Obs("seed")
  /\ UNCHANGED <<settings, registryVars, cacheVars, polling, debounceVars,
                 tasks, now, consumerVars,
                 validations, bannerVars>>

\* ------------------------------------------------------------------------
\* The controller: construction, init(), then events in any order
\* ------------------------------------------------------------------------
InitController ==
  /\ registrations = <<>>
  /\ store = EmptyMap
  /\ clientCache = EmptyMap
  /\ pollIntervalMs = DEFAULT_POLL_INTERVAL_MS
  /\ pollTimer = Null
  /\ intervals = EmptyMap
  /\ polling = FALSE
  /\ previousAccounts = [defined |-> FALSE, value |-> EmptyMap]
  /\ previousDisableAnimations = FALSE
  /\ previousBannerBadgePosition = "center"
  /\ previousBannerBadgeLayout = "horizontal"
  /\ previousBannerBadgeFontSize = DefaultBadgeFontSize
  /\ settingsDebounceTimer = Null
  /\ timeouts = EmptyMap
  /\ tasks = <<>>
  /\ now = 0
  /\ handlers = <<>>
  /\ visible = {}
  /\ validations = <<>>
  /\ keyStates = EmptyMap
  /\ blinkTimers = EmptyMap
  /\ renders = <<>>
  /\ last = Obs("init")

\* what a failing operation rejects with
Reasons == {ApiError(VISIT_TOO_FREQUENTLY)}

\* every settle step of the operation k of call i
SettleAny(reasons) ==
  \E i \in 1..MaxTasks, k \in 1..Len(GAME_DATA_TYPES("gi")) :
    \E o \in OutcomesOf(i, k, reasons) : SettleOp(i, k, o)

\* ------------------------------------------------------------------------
\* Spec: registry, scheduler and fetches of one account
\* ------------------------------------------------------------------------
\* Two consumers of account A1 that request one or two Genshin data types;
\* the listener of w1 throws whenever it is called.  Ticks and refresh
\* requests run concurrently; the configuration is fixed.
ListenerOf(id) == IF id = "w1" THEN "bad" ELSE "l1"

Init ==
  /\ settings = S0
  /\ seedPending = TRUE
  /\ InitController

Next ==
  \/ \E id \in ActionIds,
        dts \in {<<GiDailyNote>>, <<GiDailyNote, GiActCalendar>>} :
        Register(Registration(id, A1, dts, ListenerOf(id)))
  \/ \E id \in ActionIds : Unregister(id)
  \/ \E h \in 1..MaxHandles : TimerFire(h)
  \/ RequestUpdate(A1, "gi")
  \/ \E i \in 1..MaxTasks : ResolveAccount(i)
  \/ SettleAny(Reasons)

Spec == Init /\ [][Next]_vars

\* ------------------------------------------------------------------------
\* SpecRegistry: registrations and the poll timer
\* ------------------------------------------------------------------------
\* Two consumers, two accounts, two listener closures, both poll intervals;
\* the only fetches are those of the scheduled ticks.
NextRegistry ==
  \/ \E id \in ActionIds, a \in AccountIds, l \in {"l1", "l2"} :
        Register(Registration(id, a, <<GiDailyNote>>, l))
  \/ \E id \in ActionIds : Unregister(id)
  \/ \E ms \in {DEFAULT_POLL_INTERVAL_MS, OtherPollIntervalMs} :
        SetPollingInterval(ms)
  \/ \E h \in 1..MaxHandles : TimerFire(h)
  \/ \E i \in 1..MaxTasks : ResolveAccount(i)
  \/ SettleAny({})

SpecRegistry == Init /\ [][NextRegistry]_vars

\* ------------------------------------------------------------------------
\* SpecNotify: the three delivery paths
\* ------------------------------------------------------------------------
\* Consumer w1 of account A1 registers for one of two data types, consumer
\* w2 of either account for the first of them.  Entries are delivered by the
\* commit of a refresh request (one request at a time), by the cold-start
\* push of register and by the renotify of a preference change.
AccountsOf(id) == IF id = "w1" THEN {A1} ELSE AccountIds
ListsOf(id) == IF id = "w1" THEN {<<GiDailyNote>>, <<GiActCalendar>>}
               ELSE {<<GiDailyNote>>}

RequestWhenIdle(a, g) == tasks = <<>> /\ RequestUpdate(a, g)

NextNotify ==
  \/ \E id \in ActionIds : \E a \in AccountsOf(id), dts \in ListsOf(id) :
        Register(Registration(id, a, dts, ListenerOf(id)))
  \/ \E a \in AccountIds : RequestWhenIdle(a, "gi")
  \/ \E i \in 1..MaxTasks : ResolveAccount(i)
  \/ SettleAny({})
  \/ \E s \in {S0, S1} : OnDidReceiveGlobalSettings(s)
  \/ \E h \in 1..MaxHandles : DebounceFire(h)
  \/ SeedResolve

SpecNotify == Init /\ [][NextNotify]_vars

\* ------------------------------------------------------------------------
\* SpecDiff: configuration snapshots against a filled cache
\* ------------------------------------------------------------------------
\* The controller is taken after init() has seeded the previous snapshot,
\* two consumers have registered and fetches have filled the cache of some
\* of the configured accounts.  Snapshots are pushed and debounced; they
\* delete accounts, change one credential field, change an account's
\* status or uids, or toggle a preference.

\* the shapes account A1 takes: every single-field credential change, and
\* changes outside the credentials
A1Shapes ==
  {BaseAccount(A1),
   Account(A1, AuthBase, "invalid", UidsBoth),
   Account(A1, AuthBase, "valid", UidsGiOther)}
    \cup {Account(A1, AuthWith(f, "x2"), "valid", UidsBoth) : f \in AuthFields}

A2Shapes ==
  {BaseAccount(A2),
   Account(A2, AuthWith("ltoken_v2", "x2"), "valid", UidsBoth)}

AccountMaps ==
  {[a \in {A1, A2} |-> IF a = A1 THEN x ELSE y] :
       x \in A1Shapes, y \in A2Shapes}
    \cup {[a \in {A1} |-> x] : x \in A1Shapes}
    \cup {[a \in {A2} |-> y] : y \in A2Shapes}
    \cup {EmptyMap}

DiffSettings ==
  {Settings(m, anim, {}, {}, {}) : m \in AccountMaps, anim \in {{}, {TRUE}}}

\* the cache after fetches for the accounts of S: a daily note and a failed
\* calendar each, and the client that fetched them
CachedStore(S) ==
  [key \in {BuildStoreKey(a, dt) :
              a \in S, dt \in {GiDailyNote, GiActCalendar}} |->
     IF key[Len(key)] = "daily-note"
     THEN OkEntry(Request(NewClient(AuthBase), "801", GiDailyNote), 0)
     ELSE ErrEntry(ApiError(VISIT_TOO_FREQUENTLY), 0)]

CachedClients(S) == [a \in S |-> NewClient(AuthBase)]

InitDiff ==
  /\ settings \in {S0, S2}
  /\ seedPending = FALSE
  /\ registrations = <<Registration("w1", A1, <<GiDailyNote>>, "l1"),
                       Registration("w2", A2, <<GiDailyNote>>, "l1")>>
  /\ \E S \in SUBSET DOMAIN settings.accounts :
       /\ store = CachedStore(S)
       /\ clientCache = CachedClients(S)
  /\ pollIntervalMs = DEFAULT_POLL_INTERVAL_MS
  /\ pollTimer = 1
  /\ intervals = Arm(EmptyMap, 1, DEFAULT_POLL_INTERVAL_MS)
  /\ polling = FALSE
  /\ previousAccounts = [defined |-> TRUE, value |-> settings.accounts]
  /\ previousDisableAnimations = FALSE
  /\ previousBannerBadgePosition = "center"
  /\ previousBannerBadgeLayout = "horizontal"
  /\ previousBannerBadgeFontSize = DefaultBadgeFontSize
  /\ settingsDebounceTimer = Null
  /\ timeouts = EmptyMap
  /\ tasks = <<>>
  /\ now = 0
  /\ handlers = <<>>
  /\ visible = {}
  /\ validations = <<>>
  /\ keyStates = EmptyMap
  /\ blinkTimers = EmptyMap
  /\ renders = <<>>
  /\ last = Obs("init")

NextDiff ==
  \/ \E s \in DiffSettings : OnDidReceiveGlobalSettings(s)
  \/ \E h \in 1..MaxHandles : DebounceFire(h)
  \/ \E a \in AccountIds : InvalidateAccountCall(a)

SpecDiff == InitDiff /\ [][NextDiff]_vars

\* ------------------------------------------------------------------------
\* SpecConfig: fetches while the configuration of one account changes
\* ------------------------------------------------------------------------
\* One consumer of account A1.  Stream Deck pushes snapshots in which A1 is
\* configured, has another token, has credentials that fail validation, has
\* no Genshin uid, or is absent; ticks, refresh requests and getClient calls
\* run before, inside and after the debounce window.
UidsHsrOnly == [g \in GameIds |-> IF g = "gi" THEN Undefined ELSE "802"]

ConfigOf(account) ==
  Settings([a \in {account.id} |-> account], {}, {}, {}, {})

ConfigNone == Settings(EmptyMap, {}, {}, {}, {})
ConfigToken2 ==
  ConfigOf(Account(A1, AuthWith("ltoken_v2", "t2"), "valid", UidsBoth))
ConfigInvalid ==
  ConfigOf(Account(A1, AuthWith("ltoken_v2", ""), "valid", UidsBoth))
ConfigNoUid == ConfigOf(Account(A1, AuthBase, "valid", UidsHsrOnly))

ConfigSettings == {S2, ConfigNone, ConfigToken2, ConfigInvalid, ConfigNoUid}

InitConfig ==
  /\ settings = S2
  /\ seedPending = TRUE
  /\ InitController

NextConfig ==
  \/ Register(Registration("w1", A1, <<GiDailyNote>>, "l1"))
  \/ TimerFire(1)
  \/ RequestUpdate(A1, "gi")
  \/ \E i \in 1..MaxTasks : ResolveAccount(i)
  \/ SettleAny(Reasons)
  \/ \E s \in ConfigSettings : OnDidReceiveGlobalSettings(s)
  \/ \E h \in 1..MaxHandles : DebounceFire(h)
  \/ SeedResolve

SpecConfig == InitConfig /\ [][NextConfig]_vars

\* ------------------------------------------------------------------------
\* SpecLive: ticks whose operations and lookups always settle
\* ------------------------------------------------------------------------
\* Two consumers of account A1; the operations of a tick fulfil or reject,
\* the settings lookup of a call resolves or rejects.  Every pending lookup
\* and every pending operation settles eventually (weak fairness); timers
\* and registrations may or may not happen.  Only ticks make calls, so at
\* most one call is in flight and fairness of the settling steps as a whole
\* is fairness for that call.
NextLive ==
  \/ \E id \in ActionIds,
        dts \in {<<GiDailyNote>>, <<GiDailyNote, GiActCalendar>>} :
        Register(Registration(id, A1, dts, "l1"))
  \/ \E id \in ActionIds : Unregister(id)
  \/ \E h \in 1..MaxHandles : TimerFire(h)
  \/ \E i \in 1..MaxTasks : ResolveAccount(i)
  \/ \E i \in 1..MaxTasks : ResolveAccountRejects(i)
  \/ SettleAny(Reasons)

\* the pending lookup or a pending operation of a call settles
CallProgresses ==
  \/ \E i \in 1..MaxTasks : ResolveAccount(i) \/ ResolveAccountRejects(i)
  \/ SettleAny(Reasons)

SpecLive == Init /\ [][NextLive]_vars /\ WF_vars(CallProgresses)

\* ------------------------------------------------------------------------
\* SpecAuth: ticks of an account whose credentials the service rejects
\* ------------------------------------------------------------------------
\* Two consumers of account A1 and one data type; an operation fulfils or is
\* rejected with NOT_LOGGED_IN; the configuration never changes.
AuthReasons == {ApiError(NOT_LOGGED_IN)}

NextAuth ==
  \/ \E id \in ActionIds :
        Register(Registration(id, A1, <<GiDailyNote>>, "l1"))
  \/ \E id \in ActionIds : Unregister(id)
  \/ \E h \in 1..MaxHandles : TimerFire(h)
  \/ \E i \in 1..MaxTasks : ResolveAccount(i)
  \/ SettleAny(AuthReasons)

SpecAuth == Init /\ [][NextAuth]_vars

\* ------------------------------------------------------------------------
\* SpecClient: client lookups while the configuration changes
\* ------------------------------------------------------------------------
\* One consumer of account A1; actions look the client of A1 up directly,
\* the account is invalidated through the public interface, and the
\* configurations of SpecConfig are pushed.
NextClient ==
  \/ Register(Registration("w1", A1, <<GiDailyNote>>, "l1"))
  \/ TimerFire(1)
  \/ \E i \in 1..MaxTasks : ResolveAccount(i)
  \/ SettleAny(Reasons)
  \/ GetClientCall(A1)
  \/ InvalidateAccountCall(A1)
  \/ \E s \in ConfigSettings : OnDidReceiveGlobalSettings(s)
  \/ \E h \in 1..MaxHandles : DebounceFire(h)
  \/ SeedResolve

SpecClient == InitConfig /\ [][NextClient]_vars

\* ------------------------------------------------------------------------
\* SpecConsumer: consumers that appear, change their settings and disappear
\* ------------------------------------------------------------------------
\* One consumer of a Genshin action with one data type; its settings name
\* account A1 or the unconfigured account A2; the configuration of A1 loses
\* and regains its Genshin uid; every operation fulfils.
ConsumerDataTypes == {<<GiDailyNote>>, <<GiSpiralAbyss>>}

ConsumerSettings == {S2, ConfigNoUid}

NextConsumer ==
  \/ \E a \in AccountIds, dts \in ConsumerDataTypes :
        OnWillAppear("w1", a, "gi", dts)
  \/ \E a \in AccountIds, dts \in ConsumerDataTypes :
        OnDidReceiveSettings("w1", a, "gi", dts)
  \/ OnWillDisappear("w1")
  \/ \E i \in 1..MaxHandlers : HandlerResume(i)
  \/ \E i \in 1..MaxTasks : ResolveAccount(i)
  \/ SettleAny({})
  \/ \E s \in ConsumerSettings : OnDidReceiveGlobalSettings(s)
  \/ \E h \in 1..MaxHandles : DebounceFire(h)

SpecConsumer == InitConfig /\ [][NextConsumer]_vars

\* ------------------------------------------------------------------------
\* SpecStore: every operation of the controller, while time passes
\* ------------------------------------------------------------------------
\* One consumer of account A1 and one data type; ticks, refresh requests,
\* both poll intervals, public invalidation, and pushes that change the
\* credentials of A1 or a rendering preference; every operation fulfils.
ConfigNoAnimations == [S2 EXCEPT !.disableAnimations = {TRUE}]

StoreSettings == {ConfigToken2, ConfigNoAnimations}

NextStore ==
  \/ Register(Registration("w1", A1, <<GiDailyNote>>, "l1"))
  \/ Unregister("w1")
  \/ \E ms \in {DEFAULT_POLL_INTERVAL_MS, OtherPollIntervalMs} :
        SetPollingInterval(ms)
  \/ \E h \in 1..MaxHandles : TimerFire(h)
  \/ RequestUpdate(A1, "gi")
  \/ \E i \in 1..MaxTasks : ResolveAccount(i)
  \/ SettleAny({})
  \/ InvalidateAccountCall(A1)
  \/ \E s \in StoreSettings : OnDidReceiveGlobalSettings(s)
  \/ \E h \in 1..MaxHandles : DebounceFire(h)
  \/ SeedResolve
  \/ AdvanceClock

SpecStore == InitConfig /\ [][NextStore]_vars

\* ------------------------------------------------------------------------
\* SpecFetchAll: fetchAll of the Genshin controller called on its own
\* ------------------------------------------------------------------------
\* fetchAll is called with lists of up to two requested types, among them a
\* type of another game and repeated types; each operation fulfils, rejects
\* with an Error or rejects with a value that is not an Error.
RequestedTypes == {GiDailyNote, GiActCalendar, HsrDailyNote}

RequestedLists ==
  {<<>>} \cup {<<x>> : x \in RequestedTypes}
         \cup {<<x, y>> : x \in RequestedTypes, y \in RequestedTypes}

\* fetchAll(client, uid, requestedTypes) up to its await
FetchAllCall(requestedTypes) ==
  /\ Len(tasks) < MaxTasks
  /\ \E entries \in {FilterRequested(
                       GetFetchers("gi", NewClient(AuthBase), "801"),
                       requestedTypes)} :
       /\ tasks' = Append(tasks,
                     [Task("fetchAll", A1, "gi", requestedTypes) EXCEPT
                        !.pc = "fetch", !.entries = entries])
       /\ last' = [Obs("fetchAll") EXCEPT !.arg = requestedTypes,
                                          !.fetches = entries]
  /\ UNCHANGED <<settings, registryVars, cacheVars, polling, diffVars,
                 debounceVars, seedPending, now, consumerVars,
                 validations, bannerVars>>

\* the operations of call i settle and fetchAll returns its map
FetchAllReturn(i) ==
  /\ i \in 1..Len(tasks)
  /\ tasks[i].owner = "fetchAll"
  /\ \E settled \in [1..Len(tasks[i].entries) ->
                       {Fulfilled(<<>>), Rejected(PlainError),
                        Rejected(NonError)}] :
     \E f \in {FetchAllResults(tasks[i].entries, settled, now)} :
       /\ tasks' = RemoveAt(tasks, i)
       /\ last' = [Obs("fetchAllReturn") EXCEPT
                     !.arg = tasks[i],
                     !.results = f.results,
                     !.settled = settled,
                     !.rejected = f.threw]
  /\ UNCHANGED <<settings, registryVars, cacheVars, polling, diffVars,
                 debounceVars, seedPending, now, consumerVars,
                 validations, bannerVars>>

NextFetchAll ==
  \/ \E requestedTypes \in RequestedLists : FetchAllCall(requestedTypes)
  \/ \E i \in 1..MaxTasks : FetchAllReturn(i)

SpecFetchAll == Init /\ [][NextFetchAll]_vars

\* ------------------------------------------------------------------------
\* SpecPrefs: pushes that change the rendering preferences only
\* ------------------------------------------------------------------------
\* Every preference absent, every preference written out with its default
\* value, and one setting per preference that departs from the default.
PrefDefaults ==
  Settings(AccountsMap(AccountIds), {FALSE}, {"center"}, {"horizontal"},
           {DefaultBadgeFontSize})

PrefSettings ==
  {S0, PrefDefaults, S1,
   [S0 EXCEPT !.bannerBadgePosition = {"right"}],
   [S0 EXCEPT !.bannerBadgeLayout = {"vertical"}],
   [PrefDefaults EXCEPT !.bannerBadgeFontSize = {DefaultBadgeFontSize + 6}]}

\* after construction and init(), two consumers registered and their data
\* cached, getGlobalSettings() of init() still pending
InitPrefs ==
  /\ settings \in {S0, S1}
  /\ seedPending = TRUE
  /\ registrations = <<Registration("w1", A1, <<GiDailyNote>>, "l1"),
                       Registration("w2", A2, <<GiDailyNote>>, "l1")>>
  /\ store = CachedStore(AccountIds)
  /\ clientCache = CachedClients(AccountIds)
  /\ pollIntervalMs = DEFAULT_POLL_INTERVAL_MS
  /\ pollTimer = 1
  /\ intervals = Arm(EmptyMap, 1, DEFAULT_POLL_INTERVAL_MS)
  /\ polling = FALSE
  /\ previousAccounts = [defined |-> FALSE, value |-> EmptyMap]
  /\ previousDisableAnimations = FALSE
  /\ previousBannerBadgePosition = "center"
  /\ previousBannerBadgeLayout = "horizontal"
  /\ previousBannerBadgeFontSize = DefaultBadgeFontSize
  /\ settingsDebounceTimer = Null
  /\ timeouts = EmptyMap
  /\ tasks = <<>>
  /\ now = 0
  /\ handlers = <<>>
  /\ visible = {}
  /\ validations = <<>>
  /\ keyStates = EmptyMap
  /\ blinkTimers = EmptyMap
  /\ renders = <<>>
  /\ last = Obs("init")

NextPrefs ==
  \/ \E s \in PrefSettings : OnDidReceiveGlobalSettings(s)
  \/ \E h \in 1..MaxHandles : DebounceFire(h)
  \/ SeedResolve

SpecPrefs == InitPrefs /\ [][NextPrefs]_vars

\* ------------------------------------------------------------------------
\* SpecErrors: every way an operation can fail
\* ------------------------------------------------------------------------
\* One consumer of account A1 and one data type; the operations of the ticks
\* end as the transport client ends a request (network failure, HTTP status
\* failure, each retcode of API_ERRORS) or reject with a value that is not an
\* Error.
Retcodes ==
  {SUCCESS, INVALID_REQUEST, NOT_LOGGED_IN, VISIT_TOO_FREQUENTLY,
   LOGIN_REQUIRED, DATA_NOT_PUBLIC, ALREADY_CLAIMED}

Responses ==
  [network : BOOLEAN, ok : BOOLEAN, retcode : Retcodes, data : {<<>>}]

ErrorReasons ==
  {ClientRequest(r).reason :
     r \in {x \in Responses : ClientRequest(x).status = "rejected"}}
    \cup {NonError}

NextErrors ==
  \/ Register(Registration("w1", A1, <<GiDailyNote>>, "l1"))
  \/ Unregister("w1")
  \/ \E h \in 1..MaxHandles : TimerFire(h)
  \/ \E i \in 1..MaxTasks : ResolveAccount(i)
  \/ SettleAny(ErrorReasons)

SpecErrors == Init /\ [][NextErrors]_vars

\* ------------------------------------------------------------------------
\* SpecValidator: validations while the settings are edited
\* ------------------------------------------------------------------------
\* The property inspector saves settings that carry the pending flag for A1
\* (as configured at start-up, with animations disabled, with account A2
\* added, with A1 deleted, with credentials that fail the schema) or that
\* carry no flag; validations end in every way they can.
Pending(s, accountId) == [s EXCEPT !.pendingValidation = {accountId}]

ValidatorSettings ==
  {Pending(S2, A1), Pending(ConfigNoAnimations, A1), Pending(S0, A1),
   Pending(ConfigNone, A1), Pending(ConfigInvalid, A1), ConfigNoAnimations}

NextValidator ==
  \/ \E s \in ValidatorSettings : OnDidReceiveGlobalSettings(s)
  \/ \E i \in 1..MaxValidations, o \in ValidationOutcomes :
        ValidateAccountReturn(i, o)
  \/ \E h \in 1..MaxHandles : DebounceFire(h)
  \/ SeedResolve

SpecValidator == InitConfig /\ [][NextValidator]_vars

\* ------------------------------------------------------------------------
\* SpecBanner: one banner key under data updates and key presses
\* ------------------------------------------------------------------------
\* The key "w1" of a Genshin banner action stays on the device; the
\* calendar of A1 is cached and that of A2 is not; animations are enabled or
\* disabled by the configuration read at start-up.  Data updates (a
\* calendar or an error) and key presses arrive while earlier renders are
\* suspended, and the blink timeouts fire in any order.
BannerEntries ==
  {OkEntry(Request(NewClient(AuthBase), "801", GiActCalendar), 0),
   ErrEntry(ApiError(VISIT_TOO_FREQUENTLY), 0)}

BannerStore ==
  StoreSet(EmptyMap, BuildStoreKey(A1, GiActCalendar),
           OkEntry(Request(NewClient(AuthBase), "801", GiActCalendar), 0))

InitBanner ==
  /\ settings \in {S2, ConfigNoAnimations}
  /\ seedPending = FALSE
  /\ registrations = <<>>
  /\ store = BannerStore
  /\ clientCache = CachedClients({A1})
  /\ pollIntervalMs = DEFAULT_POLL_INTERVAL_MS
  /\ pollTimer = Null
  /\ intervals = EmptyMap
  /\ polling = FALSE
  /\ previousAccounts = [defined |-> TRUE, value |-> settings.accounts]
  /\ previousDisableAnimations = OrDefault(settings.disableAnimations, FALSE)
  /\ previousBannerBadgePosition = "center"
  /\ previousBannerBadgeLayout = "horizontal"
  /\ previousBannerBadgeFontSize = DefaultBadgeFontSize
  /\ settingsDebounceTimer = Null
  /\ timeouts = EmptyMap
  /\ tasks = <<>>
  /\ now = 0
  /\ handlers = <<>>
  /\ visible = {}
  /\ validations = <<>>
  /\ keyStates = EmptyMap
  /\ blinkTimers = EmptyMap
  /\ renders = <<>>
  /\ last = Obs("init")

NextBanner ==
  \/ \E a \in AccountIds, e \in BannerEntries : OnDataUpdate("w1", a, e)
  \/ \E a \in AccountIds : OnKeyDown("w1", a, "gi", GiActCalendar)
  \/ \E i \in 1..MaxGeneration : KeyDownResume(i)
  \/ \E i \in 1..MaxGeneration, blinks \in BOOLEAN :
        DisplayBannerReturn(i, blinks)
  \/ \E h \in 1..(MaxHandles + 1) : BlinkFire(h)

SpecBanner == InitBanner /\ [][NextBanner]_vars

\* ------------------------------------------------------------------------
\* Properties
\* ------------------------------------------------------------------------
\* the tick calls in flight
TickTaskIndexes == {i \in 1..Len(tasks) : tasks[i].owner = "tick"}

\* how many of the calls of a step went out with data type dt
CallsFor(calls, dt) ==
  Cardinality({i \in 1..Len(calls) : calls[i].dataType = dt})

\* C1: after any sequence of register, unregister and setPollingInterval
\* calls the poll timer is armed exactly when a registration exists, the
\* armed intervals are exactly that one timer, and a scheduled tick starts
\* only while a registration exists.
TimerArmedIffRegistered ==
  /\ (pollTimer # Null) <=> (Len(registrations) > 0)
  /\ DOMAIN intervals = (IF pollTimer = Null THEN {} ELSE {pollTimer})
  /\ Cardinality(DOMAIN intervals) <= 1
  /\ (last.op = "pollTick" => Len(registrations) > 0)

\* the last registration has just been removed, after the interval had been
\* changed while the timer was armed
TimerStoppedByLastUnregister ==
  /\ last.op = "unregister"
  /\ registrations = <<>>
  /\ pollTimer = Null
  /\ intervals = EmptyMap
  /\ pollIntervalMs = OtherPollIntervalMs

\* C2: a timer firing while a tick is in flight changes nothing: no call is
\* started or queued, nothing is written, nobody is notified; so the tick
\* calls in flight belong to one tick, one per (account, game), and the flag
\* is set exactly while they exist.
SingleTickInFlight ==
  /\ [](\A i, j \in TickTaskIndexes :
          (tasks[i].accountId = tasks[j].accountId
             /\ tasks[i].game = tasks[j].game) => i = j)
  /\ [](polling <=> TickTaskIndexes # {})
  /\ [][(polling /\ last'.op = "pollTick") =>
          /\ tasks' = tasks
          /\ store' = store
          /\ polling'
          /\ last'.calls = <<>>
          /\ last'.writes = <<>>
          /\ last'.fetches = <<>>]_vars

\* a timer has fired while the operations of the previous tick were pending
TickSkippedWhileFetching ==
  /\ last.op = "pollTick"
  /\ last.noop
  /\ \E i \in TickTaskIndexes :
        tasks[i].pc = "fetch" /\ Len(tasks[i].entries) = 2

\* the request of a register call repeats the stored registration
RepeatsRegistration(regs, reg) ==
  \E i \in 1..Len(regs) :
    /\ regs[i].actionId = reg.actionId
    /\ regs[i].accountId = reg.accountId
    /\ regs[i].dataTypes = reg.dataTypes

\* C6: register for a consumer whose stored registration has the same
\* account and the same data types in the same order leaves the
\* registrations (listener included), the store, the timer and the calls in
\* flight unchanged and invokes no listener.
RegisterIdempotent ==
  [][(last'.op = "register" /\ RepeatsRegistration(registrations, last'.arg)) =>
       /\ registrations' = registrations
       /\ pollTimer' = pollTimer
       /\ intervals' = intervals
       /\ tasks' = tasks
       /\ store' = store
       /\ last'.calls = <<>>
       /\ last'.fetches = <<>>]_vars

\* an identical request arrived with another listener while the requested
\* entry was cached
RepeatedRegisterWithNewListener ==
  /\ last.op = "register"
  /\ RepeatsRegistration(registrations, last.arg)
  /\ GetReg(registrations, last.arg.actionId).listener # last.arg.listener
  /\ BuildStoreKey(last.arg.accountId, GiDailyNote) \in DOMAIN store

\* C7: a register call that is not a repetition invokes the listener of the
\* new registration once for each requested data type that has an entry in
\* the store, with that entry, and never for another data type.
RegisterReplaysCached ==
  [][(last'.op = "register" /\ ~RepeatsRegistration(registrations, last'.arg)) =>
       /\ \A dt \in DataTypes :
            CallsFor(last'.calls, dt) =
              (IF /\ Includes(last'.arg.dataTypes, dt)
                  /\ BuildStoreKey(last'.arg.accountId, dt) \in DOMAIN store
               THEN 1 ELSE 0)
       /\ \A i \in 1..Len(last'.calls) :
            /\ last'.calls[i].actionId = last'.arg.actionId
            /\ last'.calls[i].listener = last'.arg.listener
            /\ last'.calls[i].accountId = last'.arg.accountId
            /\ last'.calls[i].entry =
                 store[BuildStoreKey(last'.arg.accountId,
                                     last'.calls[i].dataType)]]_vars

\* a registration for two data types found both of them cached
RegisterReplayedTwo ==
  /\ last.op = "register"
  /\ Len(last.arg.dataTypes) = 2
  /\ Len(last.calls) = 2

\* C10: fetchAll returns one entry per started operation, in the order of
\* the table: an error entry where the operation rejected, an ok entry with
\* the operation's value where it fulfilled; it never rejects.
FetchAllIsolatesFailures ==
  last.op = "commit" =>
    /\ ~last.rejected
    /\ Len(last.results) = Len(last.arg.entries)
    /\ \A k \in 1..Len(last.results) :
         /\ last.results[k].dataType = last.arg.entries[k].type
         /\ last.settled[k].status = "rejected" =>
              /\ last.results[k].entry.status = "error"
              /\ last.results[k].entry.error = last.settled[k].reason
         /\ last.settled[k].status = "fulfilled" =>
              /\ last.results[k].entry.status = "ok"
              /\ last.results[k].entry.data = last.settled[k].value

\* one operation of a call failed and its sibling succeeded
FetchAllMixedOutcome ==
  /\ last.op = "commit"
  /\ Len(last.results) = 2
  /\ last.results[1].entry.status = "error"
  /\ last.results[2].entry.status = "ok"

\* C8: on every delivery path a listener is called only by the registration
\* that owns it, for the account of that registration and for a data type
\* that registration requests.
DeliveriesMatchRegistration ==
  \A i \in 1..Len(last.calls) :
    \E k \in 1..Len(registrations) :
      /\ registrations[k].actionId = last.calls[i].actionId
      /\ registrations[k].listener = last.calls[i].listener
      /\ registrations[k].accountId = last.calls[i].accountId
      /\ Includes(registrations[k].dataTypes, last.calls[i].dataType)

\* a commit delivered an entry of one account while a consumer of the other
\* account requested the same data type
CommitPassedOtherAccount ==
  /\ last.op = "commit"
  /\ Len(last.calls) > 0
  /\ \E k \in 1..Len(registrations) :
       /\ registrations[k].accountId # last.arg.accountId
       /\ Includes(registrations[k].dataTypes, last.calls[1].dataType)

\* C9: when fetchAndNotify commits a batch, every entry of the batch is in
\* the store and has been handed to every registration of the account that
\* requests its data type, whether or not a listener threw, and the call
\* does not reject.
ThrowingListenerIsolated ==
  last.op = "commit" =>
    /\ ~last.rejected
    /\ \A k \in 1..Len(last.results) :
         /\ BuildStoreKey(last.arg.accountId, last.results[k].dataType)
              \in DOMAIN store
         /\ store[BuildStoreKey(last.arg.accountId, last.results[k].dataType)]
              = last.results[k].entry
         /\ \A r \in 1..Len(registrations) :
              (/\ registrations[r].accountId = last.arg.accountId
               /\ Includes(registrations[r].dataTypes, last.results[k].dataType))
              => \E i \in 1..Len(last.calls) :
                   /\ last.calls[i].actionId = registrations[r].actionId
                   /\ last.calls[i].dataType = last.results[k].dataType
                   /\ last.calls[i].entry = last.results[k].entry

\* a batch of two entries was committed while the throwing listener, first
\* in the registrations, and a second listener both requested its entries
ThrowingListenerFirst ==
  /\ last.op = "commit"
  /\ Len(last.results) = 2
  /\ Len(registrations) = 2
  /\ Throws(registrations[1].listener)
  /\ registrations[1].accountId = last.arg.accountId
  /\ registrations[2].accountId = last.arg.accountId
  /\ Len(last.calls) >= 3

\* the entries of account a in the store st, by data type
EntriesOf(st, a) ==
  [dt \in {d \in DataTypes : BuildStoreKey(a, d) \in DOMAIN st} |->
     st[BuildStoreKey(a, dt)]]

\* the cached client of account a, as a set of at most one client
ClientOf(cache, a) == IF a \in DOMAIN cache THEN {cache[a]} ELSE {}

\* account a keeps its entries and its client in this step
CacheKept(a) ==
  /\ EntriesOf(store', a) = EntriesOf(store, a)
  /\ ClientOf(clientCache', a) = ClientOf(clientCache, a)

\* account a has neither entry nor client after this step
CacheDropped(a) ==
  /\ EntriesOf(store', a) = EmptyMap
  /\ ClientOf(clientCache', a) = {}

\* C3: invalidateAccount(A) removes every entry and the client of A and
\* leaves the entries and the client of every other account as they were;
\* no key is added.
InvalidateAccountFrame ==
  [][last'.op = "invalidateAccount" =>
       /\ CacheDropped(last'.arg.accountId)
       /\ \A b \in AccountIds \ {last'.arg.accountId} : CacheKept(b)
       /\ DOMAIN store' \subseteq DOMAIN store]_vars

\* the account whose id is a prefix of the other's was invalidated while
\* both had entries and clients
InvalidatedPrefixAccount ==
  /\ last.op = "invalidateAccount"
  /\ last.arg.accountId = A1
  /\ last.arg.removed # {}
  /\ EntriesOf(store, A2) # EmptyMap
  /\ A2 \in DOMAIN clientCache

\* the accounts a diff pass must invalidate: present before and absent now,
\* or present in both with one of the six credential fields different
MustInvalidate(oldAccounts, newAccounts) ==
  {a \in AccountIds :
     \/ a \in DOMAIN oldAccounts /\ a \notin DOMAIN newAccounts
     \/ /\ a \in DOMAIN oldAccounts
        /\ a \in DOMAIN newAccounts
        /\ \E f \in AuthFields :
             oldAccounts[a].auth[f] # newAccounts[a].auth[f]}

\* the previous snapshot a diff pass compares with
OldAccounts ==
  IF previousAccounts.defined THEN previousAccounts.value ELSE EmptyMap

\* C4: a diff pass calls invalidateAccount for exactly the accounts that
\* were deleted or had one of their six credential fields changed, and
\* those accounts have neither entry nor client afterwards.
DiffInvalidatesExactly ==
  [][last'.op = "diff" =>
       /\ last'.invalidated =
            MustInvalidate(OldAccounts, last'.arg.new.accounts)
       /\ \A a \in MustInvalidate(OldAccounts, last'.arg.new.accounts) :
            CacheDropped(a)]_vars

\* a diff pass invalidated A1 for a change of one optional field alone
OptionalFieldInvalidated ==
  /\ last.op = "diff"
  /\ A1 \in DOMAIN last.arg.old
  /\ A1 \in DOMAIN last.arg.new.accounts
  /\ last.arg.removed # {}
  /\ last.arg.new.accounts[A1].auth =
       [last.arg.old[A1].auth EXCEPT !.cookie_token_v2 = "x2"]
  /\ last.arg.old[A1].auth.cookie_token_v2 = Undefined
  /\ last.invalidated = {A1}

\* C5: a diff pass leaves the entries and the client of every account whose
\* six credential fields are the same in both snapshots as they were.
DiffKeepsUnchangedAccounts ==
  [][last'.op = "diff" =>
       \A a \in AccountIds :
         (/\ a \in DOMAIN OldAccounts
          /\ a \in DOMAIN last'.arg.new.accounts
          /\ \A f \in AuthFields :
               OldAccounts[a].auth[f] = last'.arg.new.accounts[a].auth[f])
         => CacheKept(a)]_vars

\* a diff pass invalidated A2 and met A1 with other uids and the same
\* credentials; A1 kept its entries and its client
UnchangedAccountKept ==
  /\ last.op = "diff"
  /\ last.invalidated = {A2}
  /\ A1 \in DOMAIN last.arg.old
  /\ A1 \in DOMAIN last.arg.new.accounts
  /\ last.arg.old[A1].auth = last.arg.new.accounts[A1].auth
  /\ last.arg.old[A1].uids # last.arg.new.accounts[A1].uids
  /\ last.arg.renotify
  /\ EntriesOf(store, A1) = EntriesOf(CachedStore({A1}), A1)
  /\ A1 \in DOMAIN clientCache

\* the account of a call cannot be fetched for: it is not in the
\* configuration, its credentials fail validation, or it has no uid for the
\* game
CannotFetch(task) ==
  \/ task.accountId \notin DOMAIN settings.accounts
  \/ ~IsValidAuth(settings.accounts[task.accountId].auth)
  \/ settings.accounts[task.accountId].uids[task.game] \in {Undefined, ""}

\* this step resumes call i after its resolveAccount
ResumesCall(i) ==
  /\ tasks[i].pc = "resolve"
  /\ last'.op \in {"skipFetch", "startFetch", "commit"}
  /\ last'.arg = tasks[i]
  /\ Len(tasks') = Len(tasks) - 1 \/ tasks'[i].pc = "fetch"

\* C11: a call of a tick or of requestUpdate whose account is not configured,
\* has credentials that fail validation or has no uid for the game returns
\* without starting a fetch operation, writing an entry, calling a listener
\* or rejecting, the store keeps what it held and the call is over.
SkippedFetchIsInert ==
  [][\A i \in 1..Len(tasks) :
       (ResumesCall(i) /\ CannotFetch(tasks[i])) =>
         /\ last'.fetches = <<>>
         /\ last'.calls = <<>>
         /\ last'.writes = <<>>
         /\ ~last'.rejected
         /\ store' = store
         /\ \E j \in 1..Len(tasks) :
              tasks[j] = tasks[i] /\ tasks' = RemoveAt(tasks, j)]_vars

\* a tick's call was skipped for an account without uid while the store
\* held an entry of that account
SkippedWithStaleEntry ==
  /\ last.op = "skipFetch"
  /\ last.arg.owner = "tick"
  /\ settings = ConfigNoUid
  /\ BuildStoreKey(A1, GiDailyNote) \in DOMAIN store

\* the registrations of regs that request data type dt of account a
Requesting(regs, a, dt) ==
  {r \in 1..Len(regs) :
     regs[r].accountId = a /\ Includes(regs[r].dataTypes, dt)}

\* how often data type dt of account a is listed by the calls of cs
TimesListed(cs, a, dt) ==
  Cardinality({<<i, j>> \in (1..Len(cs)) \X (1..Len(GAME_DATA_TYPES("gi"))) :
     /\ cs[i].accountId = a
     /\ j \in 1..Len(cs[i].dataTypes)
     /\ cs[i].dataTypes[j] = dt})

\* C12: a tick lists every (account, data type) that at least one
\* registration requests exactly once, however many registrations request
\* it, and nothing else; the call starts one fetch operation per listed data
\* type; and its commit calls every registration that requests the data
\* type exactly once, each with the entry that was stored.
TickFetchesUnionOnce ==
  [][/\ (last'.op = "pollTick" /\ ~last'.noop) =>
          \A a \in AccountIds, dt \in DataTypes :
            TimesListed(last'.arg, a, dt) =
              (IF Requesting(registrations, a, dt) # {} THEN 1 ELSE 0)
     /\ (last'.op = "startFetch" /\ last'.arg.owner = "tick") =>
          \A dt \in Range(last'.arg.dataTypes) :
            Cardinality({k \in 1..Len(last'.fetches) :
                           last'.fetches[k].type = dt}) = 1
     /\ (last'.op = "commit" /\ last'.arg.owner = "tick") =>
          \A k \in 1..Len(last'.results) :
            \A r \in Requesting(registrations, last'.arg.accountId,
                                last'.results[k].dataType) :
              LET mine == {c \in 1..Len(last'.calls) :
                             /\ last'.calls[c].actionId =
                                  registrations[r].actionId
                             /\ last'.calls[c].dataType =
                                  last'.results[k].dataType}
              IN /\ Cardinality(mine) = 1
                 /\ \A c \in mine :
                      /\ last'.calls[c].entry = last'.results[k].entry
                      /\ last'.calls[c].entry =
                           store'[BuildStoreKey(last'.arg.accountId,
                                                last'.results[k].dataType)]
    ]_vars

\* a tick's fetch of a data type that both registrations request failed
\* with the rate limit and both were called with that one entry
TickNotifiedBothOnce ==
  /\ last.op = "commit"
  /\ last.arg.owner = "tick"
  /\ Len(registrations) = 2
  /\ Len(last.results) = 1
  /\ last.results[1].entry.status = "error"
  /\ Len(last.calls) = 2
  /\ last.calls[1].actionId # last.calls[2].actionId
  /\ last.calls[1].entry = last.calls[2].entry

\* C13: a diff pass that finds a preference changed calls every registration
\* once for each of its data types that has an entry in the store, with that
\* entry, and calls nobody else; it starts no fetch and changes neither the
\* registrations nor the calls in flight; the store and the client cache
\* change only by the invalidations of the same pass, so they are unchanged
\* when the pass invalidates nothing.
RenotifyReplaysStore ==
  [][(last'.op = "diff" /\ last'.arg.renotify) =>
       /\ \A r \in 1..Len(registrations) :
            \A dt \in Range(registrations[r].dataTypes) :
              LET key == BuildStoreKey(registrations[r].accountId, dt)
                  mine == {c \in 1..Len(last'.calls) :
                             /\ last'.calls[c].actionId =
                                  registrations[r].actionId
                             /\ last'.calls[c].dataType = dt}
              IN /\ Cardinality(mine) = (IF key \in DOMAIN store' THEN 1 ELSE 0)
                 /\ \A c \in mine :
                      /\ last'.calls[c].entry = store[key]
                      /\ last'.calls[c].accountId = registrations[r].accountId
                      /\ last'.calls[c].listener = registrations[r].listener
       /\ \A c \in 1..Len(last'.calls) :
            \E r \in 1..Len(registrations) :
              /\ registrations[r].actionId = last'.calls[c].actionId
              /\ Includes(registrations[r].dataTypes, last'.calls[c].dataType)
       /\ last'.fetches = <<>>
       /\ tasks' = tasks
       /\ registrations' = registrations
       /\ \A key \in DOMAIN store' : key \in DOMAIN store /\ store'[key] = store[key]
       /\ last'.invalidated = {} => (store' = store /\ clientCache' = clientCache)
    ]_vars

\* a preference toggled with entries of both accounts cached: both
\* registrations were called and nothing was invalidated
RenotifiedBoth ==
  /\ last.op = "diff"
  /\ last.arg.renotify
  /\ last.invalidated = {}
  /\ Len(last.calls) = 2
  /\ last.calls[1].entry.status = "ok"
  /\ last.calls[1].accountId # last.calls[2].accountId

\* C14: at most one debounce timeout is armed, it is the one the handler
\* remembers, it was armed by the latest push with the debounce window as
\* its delay and carries the snapshot of that push; a push runs no diff
\* pass; a diff pass runs on the latest pushed snapshot and leaves no
\* timeout armed.  So a burst ends in one diff pass, on its last snapshot.
BurstDebouncedToOneDiff ==
  /\ [](/\ DOMAIN timeouts = (IF settingsDebounceTimer = Null THEN {}
                                ELSE {settingsDebounceTimer})
        /\ \A h \in DOMAIN timeouts :
             /\ timeouts[h].settings = settings
             /\ timeouts[h].delay = SETTINGS_DEBOUNCE_MS)
  /\ [][/\ last'.op = "didReceiveGlobalSettings" =>
             /\ UNCHANGED <<store, clientCache, diffVars>>
             /\ last'.calls = <<>>
             /\ Cardinality(DOMAIN timeouts') = 1
        /\ last'.op = "diff" =>
             /\ last'.arg.new = settings
             /\ previousAccounts'.value = settings.accounts
             /\ timeouts' = EmptyMap
             /\ settingsDebounceTimer' = Null]_vars

\* a diff pass ran after a burst of at least two pushes whose last snapshot
\* differs from the one it replaced
DiffAfterBurst ==
  /\ last.op = "diff"
  /\ last.arg.burst = 2
  /\ last.arg.new = settings
  /\ last.arg.new.accounts # last.arg.old
  /\ last.invalidated # {}

\* C15: requestUpdate and the calls it makes leave the in-flight flag as it
\* is, a request made while a tick is in flight starts its call, a timer
\* firing while only requests are in flight is not skipped, and a commit
\* leaves in the store the entries of its own batch whatever entry, of
\* whatever fetchedAt, the store held.
RequestIndependentOfTick ==
  [][/\ last'.op = "requestUpdate" =>
          /\ polling' = polling
          /\ ~last'.noop => Len(tasks') = Len(tasks) + 1
     /\ (last'.op \in {"skipFetch", "startFetch", "settle", "commit"}
           /\ last'.arg.owner = "request") =>
          polling' = polling
     /\ (last'.op = "pollTick" /\ ~polling) => ~last'.noop
     /\ last'.op = "commit" =>
          \A k \in 1..Len(last'.results) :
            store'[BuildStoreKey(last'.arg.accountId,
                                 last'.results[k].dataType)]
              = last'.results[k].entry
    ]_vars

\* a request committed while a tick was fetching the same data type, and
\* replaced the entry the store held by one of the same fetchedAt
RequestCommittedDuringTick ==
  /\ last.op = "commit"
  /\ last.arg.owner = "request"
  /\ polling
  /\ BuildStoreKey(A1, GiDailyNote) \in last.replaced
  /\ \E i \in TickTaskIndexes :
       /\ tasks[i].pc = "fetch"
       /\ tasks[i].accountId = A1
       /\ Includes(tasks[i].dataTypes, GiDailyNote)

\* C16: when every lookup and every fetch operation of a tick settles, the
\* in-flight flag set by the tick is cleared again, also when a call of the
\* tick rejected or an operation failed.
TickFlagEventuallyCleared == polling ~> ~polling

\* the flag was cleared by a call of a tick that rejected
FlagClearedAfterRejection ==
  /\ last.op = "rejectFetch"
  /\ last.arg.owner = "tick"
  /\ ~polling
  /\ pollTimer # Null

\* the store holds an entry of account a that is an authentication error
HasAuthErrorEntry(st, a) ==
  \E dt \in DataTypes :
    /\ BuildStoreKey(a, dt) \in DOMAIN st
    /\ st[BuildStoreKey(a, dt)].status = "error"
    /\ IsAuthError(st[BuildStoreKey(a, dt)].error)

\* C17: while the store holds an authentication-error entry of an account
\* and the configuration is unchanged, no tick starts a fetch operation for
\* that account.
NoTickFetchAfterAuthError ==
  [][\A a \in AccountIds :
       (/\ HasAuthErrorEntry(store, a)
        /\ settings' = settings
        /\ last'.op = "startFetch"
        /\ last'.arg.owner = "tick")
         => last'.arg.accountId # a]_vars

\* C18: a direct getClient call returns no client exactly when the account's
\* credentials fail validation; a client found in the cache is returned as
\* it is, without constructing one and without touching the cache; a client
\* is constructed only when the cache has none, and is stored; and a cached
\* client is replaced or dropped by no step other than an invalidation of
\* its account.
GetClientMemoizes ==
  [][/\ last'.op = "getClient" =>
          LET r == last'.arg
              id == r.accountId
          IN /\ r.found <=> IsValidAuth(r.account.auth)
             /\ ~r.found => (~r.constructed /\ clientCache' = clientCache)
             /\ (r.found /\ id \in DOMAIN clientCache) =>
                   /\ r.client = clientCache[id]
                   /\ ~r.constructed
                   /\ clientCache' = clientCache
             /\ (r.found /\ id \notin DOMAIN clientCache) =>
                   /\ r.constructed
                   /\ r.client = NewClient(r.account.auth)
                   /\ id \in DOMAIN clientCache'
                   /\ clientCache'[id] = r.client
     /\ \A a \in DOMAIN clientCache :
          a \notin last'.invalidated =>
            /\ a \in DOMAIN clientCache'
            /\ clientCache'[a] = clientCache[a]]_vars

\* a direct call returned the client that an earlier call had constructed
ClientReusedByCall ==
  /\ last.op = "getClient"
  /\ last.arg.found
  /\ ~last.arg.constructed
  /\ clientCache[A1] = last.arg.client

\* C19: a client returned by a direct getClient call was constructed from
\* the credentials of the account passed in.
ClientMatchesAccountCredentials ==
  [][(last'.op = "getClient" /\ last'.arg.found) =>
       last'.arg.client = NewClient(last'.arg.account.auth)]_vars

\* C20: when a diff pass that has a previous snapshot finds an account in
\* the new snapshot that the previous snapshot does not hold, the store has
\* no entry and the client cache has no client of that account at that
\* moment.
NewAccountHasNothingCached ==
  [][(last'.op = "diff" /\ previousAccounts.defined) =>
       \A a \in DOMAIN last'.arg.new.accounts \ DOMAIN last'.arg.old :
         /\ EntriesOf(store, a) = EmptyMap
         /\ a \notin DOMAIN clientCache]_vars

\* C21: a diff pass leaves the registrations, the timer and the calls in
\* flight as they are, and after it no account that the previous snapshot
\* held and the new one does not has an entry or a client; and a
\* requestUpdate call for an account that is not in the configuration
\* returns without a fetch operation, a write or a rejection.
DiffPassKeepsRegistry ==
  [][/\ last'.op = "diff" =>
          /\ registrations' = registrations
          /\ pollTimer' = pollTimer
          /\ intervals' = intervals
          /\ pollIntervalMs' = pollIntervalMs
          /\ polling' = polling
          /\ tasks' = tasks
          /\ \A a \in DOMAIN last'.arg.old \ DOMAIN last'.arg.new.accounts :
               /\ EntriesOf(store', a) = EmptyMap
               /\ a \notin DOMAIN clientCache'
     /\ \A i \in 1..Len(tasks) :
          (/\ ResumesCall(i)
           /\ tasks[i].owner = "request"
           /\ tasks[i].accountId \notin DOMAIN settings.accounts) =>
            /\ last'.op = "skipFetch"
            /\ last'.fetches = <<>>
            /\ last'.writes = <<>>
            /\ ~last'.rejected
            /\ store' = store]_vars

\* the diff pass dropped the entries of the removed account A1 while w1 stayed
\* registered for A1 and the timer stayed armed
RemovedAccountDroppedUnderConsumer ==
  /\ last.op = "diff"
  /\ A1 \in last.invalidated
  /\ last.arg.removed # {}
  /\ A1 \notin DOMAIN settings.accounts
  /\ \E i \in 1..Len(registrations) : registrations[i].accountId = A1
  /\ pollTimer # Null
  /\ pollTimer \in DOMAIN intervals

\* the registration of consumer id, as a set of at most one registration
RegistrationOf(regs, id) == IF HasReg(regs, id) THEN {GetReg(regs, id)} ELSE {}

\* the resumed handler is a settings change of a registered consumer whose
\* settings give the account and the data types of its registration
SettingsChangeRepeats(h) ==
  /\ h.kind = "settings"
  /\ HasReg(registrations, h.actionId)
  /\ GetReg(registrations, h.actionId).accountId = h.accountId
  /\ Range(GetReg(registrations, h.actionId).dataTypes) = Range(h.dataTypes)

\* the controller is left as it is by this step
RegistryAndFetchesKept ==
  /\ registrations' = registrations
  /\ pollTimer' = pollTimer
  /\ intervals' = intervals
  /\ tasks' = tasks
  /\ last'.calls = <<>>

\* C22 as stated: a settings change that gives the account id and the set
\* of data types of the existing registration leaves the registration, the
\* timer and the calls in flight unchanged.
SettingsChangeRepeatedIsNoop ==
  [][(last'.op = "resumeHandler" /\ SettingsChangeRepeats(last'.arg.handler))
       => RegistryAndFetchesKept]_vars

\* C22: a settings change whose account is configured and has a uid for the
\* game leaves the registration, the timer and the calls in flight unchanged
\* when it gives the account id and the set of data types of the existing
\* registration; and a settings change replaces the registration (followed
\* by a refresh request) only when there is none or the account id or the
\* set of data types differs.
SettingsChangeDiffed ==
  [][last'.op = "resumeHandler" =>
       LET h == last'.arg.handler
       IN /\ (/\ SettingsChangeRepeats(h)
              /\ h.accountId \in DOMAIN settings.accounts
              /\ ~NoUid(settings.accounts[h.accountId].uids[h.game]))
               => (last'.arg.outcome = "kept" /\ RegistryAndFetchesKept)
          /\ (h.kind = "settings" /\ last'.arg.outcome = "registered") =>
               /\ ~SettingsChangeRepeats(h)
               /\ RegistrationOf(registrations', h.actionId) =
                    {Registration(h.actionId, h.accountId, h.dataTypes, "l1")}
               /\ tasks' = Append(tasks, Task("request", h.accountId, h.game,
                                              h.dataTypes))]_vars

\* a settings change repeated the registration of w1 while the timer was
\* armed and a call was in flight, and was skipped
RepeatedSettingsChangeSkipped ==
  /\ last.op = "resumeHandler"
  /\ last.arg.handler.kind = "settings"
  /\ last.arg.outcome = "kept"
  /\ HasReg(registrations, "w1")
  /\ pollTimer # Null
  /\ tasks # <<>>

\* C23: a consumer that has disappeared and has no handler still suspended
\* has no registration.
NoRegistrationOfVanishedConsumer ==
  \A id \in ActionIds :
    (/\ id \notin visible
     /\ \A i \in 1..Len(handlers) : handlers[i].actionId # id)
      => ~HasReg(registrations, id)

\* C24: unregister leaves the calls in flight and the store as they are; and
\* the commit of a call writes an entry for every operation it started,
\* calls only listeners of registrations that exist at that moment, and
\* leaves the registrations and the timer as they are.
UnregisterKeepsFetchInFlight ==
  [][/\ last'.op = "unregister" =>
          /\ tasks' = tasks
          /\ polling' = polling
          /\ store' = store
     /\ last'.op = "commit" =>
          /\ registrations' = registrations
          /\ pollTimer' = pollTimer
          /\ intervals' = intervals
          /\ Len(last'.writes) = Len(last'.arg.entries)
          /\ \A k \in 1..Len(last'.arg.entries) :
               BuildStoreKey(last'.arg.accountId, last'.arg.entries[k].type)
                 \in DOMAIN store'
          /\ \A c \in 1..Len(last'.calls) :
               /\ HasReg(registrations, last'.calls[c].actionId)
               /\ GetReg(registrations, last'.calls[c].actionId).listener
                    = last'.calls[c].listener]_vars

\* the call of a tick committed its entries after the last consumer had been
\* unregistered: nothing was called and the timer stayed stopped
CommitAfterLastUnregister ==
  /\ last.op = "commit"
  /\ last.arg.owner = "tick"
  /\ last.writes # <<>>
  /\ last.calls = <<>>
  /\ registrations = <<>>
  /\ pollTimer = Null
  /\ intervals = EmptyMap

\* C25: a key of the store leaves the store only in a step that invalidates
\* the account of that key; every other step (register, unregister, tick,
\* requestUpdate, commit, renotify, setPollingInterval, a diff pass that
\* does not invalidate the account, the passing of time) leaves an entry
\* under it.
EntryKeptUnlessInvalidated ==
  [][\A key \in DOMAIN store :
       key \notin DOMAIN store' =>
         /\ last'.op \in {"diff", "invalidateAccount"}
         /\ \E a \in last'.invalidated : StartsWith(key, a \o Colon)]_vars

\* an entry fetched at time 0 was replayed to a consumer that registered
\* later, after the poll interval had been changed
OldEntryReplayedLater ==
  /\ last.op = "register"
  /\ Len(last.calls) = 1
  /\ last.calls[1].entry.fetchedAt = 0
  /\ now = MaxNow
  /\ pollIntervalMs = OtherPollIntervalMs

\* the keys under which the call of the latest step stores its entries
KeysOfCall(task) ==
  {BuildStoreKey(task.accountId, task.entries[k].type) :
     k \in 1..Len(task.entries)}

\* C26: a step in which an operation settles while a sibling is still
\* pending writes nothing and calls no listener; an entry enters the store
\* or reaches a listener of a fetch only in the commit step of its call,
\* when every operation of the call has settled; and that one step stores
\* all entries of the call and changes nothing else of the controller but
\* the call in flight and the in-flight flag.
BatchCommittedAfterAllSettled ==
  [][/\ last'.op = "settle" =>
          /\ store' = store
          /\ last'.calls = <<>>
          /\ last'.writes = <<>>
     /\ (\E key \in DOMAIN store' :
           key \notin DOMAIN store \/ store'[key] # store[key]) =>
          last'.op = "commit"
     /\ (last'.op = "commit" /\ last'.arg.entries # <<>>) =>
          /\ DOMAIN last'.settled = 1..Len(last'.arg.entries)
          /\ Len(last'.writes) = Len(last'.arg.entries)
          /\ \A w \in 1..Len(last'.writes) :
               /\ last'.writes[w].key \in KeysOfCall(last'.arg)
               /\ last'.writes[w].entry = last'.results[w].entry
               /\ store'[last'.writes[w].key] = last'.writes[w].entry
          /\ \A key \in DOMAIN store \ KeysOfCall(last'.arg) :
               key \in DOMAIN store' /\ store'[key] = store[key]
          /\ DOMAIN store' = DOMAIN store \cup KeysOfCall(last'.arg)
          /\ UNCHANGED <<settings, registryVars, clientCache, diffVars,
                         debounceVars, seedPending>>]_vars

\* a call committed its two entries in one step while another call was
\* still in flight
BatchCommittedBesideOtherCall ==
  /\ last.op = "commit"
  /\ Len(last.writes) = 2
  /\ Len(last.calls) >= 2
  /\ tasks # <<>>

\* how often type dt occurs among the operations of fetches
TimesFetched(fetches, dt) ==
  Cardinality({k \in 1..Len(fetches) : fetches[k].type = dt})

\* C27: fetchAll starts one operation for each type of its game's table
\* that is among the requested types and no other operation; the map it
\* returns has exactly those types as keys; a requested type that the table
\* does not declare gets no entry and makes the call reject nothing.
FetchAllSelectsRequested ==
  [][/\ last'.op = "fetchAll" =>
          \A dt \in DataTypes :
            TimesFetched(last'.fetches, dt) =
              (IF /\ Includes(GAME_DATA_TYPES("gi"), dt)
                  /\ Includes(last'.arg, dt)
               THEN 1 ELSE 0)
     /\ last'.op = "fetchAllReturn" =>
          /\ ~last'.rejected
          /\ {last'.results[k].dataType : k \in 1..Len(last'.results)} =
               Range(last'.arg.dataTypes) \cap Range(GAME_DATA_TYPES("gi"))
          /\ Len(last'.results) =
               Cardinality(Range(last'.arg.dataTypes)
                             \cap Range(GAME_DATA_TYPES("gi")))]_vars

\* fetchAll returned one entry for a request that named a type of its table
\* and a type of another game
ForeignTypeLeftOut ==
  /\ last.op = "fetchAllReturn"
  /\ last.arg.dataTypes = <<HsrDailyNote, GiDailyNote>>
  /\ Len(last.results) = 1
  /\ last.results[1].dataType = GiDailyNote
  /\ ~last.rejected


\* the preference values the controller remembers
Remembered ==
  [disableAnimations |-> previousDisableAnimations,
   bannerBadgePosition |-> previousBannerBadgePosition,
   bannerBadgeLayout |-> previousBannerBadgeLayout,
   bannerBadgeFontSize |-> previousBannerBadgeFontSize]

\* C28: a diff pass replays the cached entries to the registrations exactly
\* when one of the four preferences of the pushed settings, an absent one
\* taken as its default (false, center, horizontal, 18), differs from the
\* value the controller remembers; it starts no fetch; afterwards the
\* controller remembers the preferences of that pass; and a pass that ends
\* a burst whose last push carries the remembered preferences replays
\* nothing, whatever the superseded pushes carried.
RenotifyIffPreferenceDiffers ==
  [][last'.op = "diff" =>
       /\ last'.arg.renotify <=> (Preferences(last'.arg.new) # Remembered)
       /\ last'.calls =
            IF Preferences(last'.arg.new) # Remembered
            THEN RenotifyAll(registrations, store')
            ELSE <<>>
       /\ last'.fetches = <<>>
       /\ tasks' = tasks
       /\ Remembered' = Preferences(last'.arg.new)
       /\ (last'.arg.overrides /\ Preferences(last'.arg.new) = Remembered)
            => last'.calls = <<>>]_vars

\* a pass ended a burst in which a preference changed and changed back: the
\* superseded push carried other preferences than the last one, the last one
\* carried the remembered ones, and no cached entry was replayed
PreferenceChangedBackInBurst ==
  /\ last.op = "diff"
  /\ last.arg.burst = 2
  /\ last.arg.overrides
  /\ ~last.arg.renotify
  /\ last.calls = <<>>
  /\ RenotifyAll(registrations, store) # <<>>
  /\ last.arg.new.disableAnimations = {}
  /\ previousBannerBadgeFontSize = DefaultBadgeFontSize


\* the calls of cs made to consumer actionId for data type dt
CallsTo(cs, actionId, dt) ==
  {k \in 1..Len(cs) : cs[k].actionId = actionId /\ cs[k].dataType = dt}

\* C29: in a diff pass that invalidates accounts and finds a preference
\* changed, no listener is called with an entry of an invalidated account,
\* so the consumers of such an account receive nothing, and the store holds
\* no entry of it afterwards; every registration of another account is
\* called once for each of its data types that has a cached entry, with
\* that entry.
InvalidationPrecedesRenotify ==
  [][(/\ last'.op = "diff"
      /\ last'.arg.renotify
      /\ last'.invalidated # {}) =>
       /\ \A k \in 1..Len(last'.calls) :
            last'.calls[k].accountId \notin last'.invalidated
       /\ \A i \in 1..Len(registrations) :
            registrations[i].accountId \in last'.invalidated =>
              \A dt \in DataTypes :
                CallsTo(last'.calls, registrations[i].actionId, dt) = {}
       /\ \A a \in last'.invalidated : DOMAIN EntriesOf(store', a) = {}
       /\ \A i \in 1..Len(registrations) :
            registrations[i].accountId \notin last'.invalidated =>
              \A dt \in Range(registrations[i].dataTypes) :
                LET key == BuildStoreKey(registrations[i].accountId, dt)
                    mine == CallsTo(last'.calls, registrations[i].actionId, dt)
                IN IF key \in DOMAIN store
                   THEN /\ Cardinality(mine) = 1
                        /\ \A k \in mine :
                             /\ last'.calls[k].entry = store[key]
                             /\ last'.calls[k].accountId =
                                  registrations[i].accountId
                   ELSE mine = {}]_vars

\* one pass removed the cached entries of A1, whose credentials had changed,
\* and replayed the entry of A2 to its consumer and nothing to the consumer
\* of A1
InvalidatedAccountSkippedByRenotify ==
  /\ last.op = "diff"
  /\ last.arg.renotify
  /\ last.invalidated = {A1}
  /\ A1 \in DOMAIN last.arg.new.accounts
  /\ \E key \in last.arg.removed : StartsWith(key, A1 \o Colon)
  /\ Len(last.calls) = 1
  /\ last.calls[1].actionId = "w2"
  /\ last.calls[1].accountId = A2


\* C30: when a commit stores the error entry of a failed operation under a
\* key that held an entry with data, getData returns the error entry
\* afterwards, a consumer that registers for the key is replayed the error
\* entry, and the entry with the data is no longer what the store returns.
FailedFetchReplacesData ==
  [][last'.op = "commit" =>
       \A k \in 1..Len(last'.results) :
         LET a == last'.arg.accountId
             dt == last'.results[k].dataType
             key == BuildStoreKey(a, dt)
             new == last'.results[k].entry
         IN (/\ key \in DOMAIN store
             /\ store[key].status = "ok"
             /\ new.status = "error") =>
              /\ GetData(store', a, dt) = new
              /\ GetData(store', a, dt) # store[key]
              /\ "data" \notin DOMAIN GetData(store', a, dt)
              /\ \A id \in ActionIds :
                   ReplayCalls(Registration(id, a, <<dt>>, ListenerOf(id)),
                               <<dt>>, store')
                     = <<Call(Registration(id, a, <<dt>>, ListenerOf(id)),
                              a, dt, new)>>]_vars

\* a commit replaced the entry under the daily-note key of A1 by the error
\* entry of a rate-limited operation; every error entry of this
\* specification is that one, so the entry replaced was one with data
DataReplacedByError ==
  /\ last.op = "commit"
  /\ BuildStoreKey(A1, GiDailyNote) \in last.replaced
  /\ GetData(store, A1, GiDailyNote) =
       ErrEntry(ApiError(VISIT_TOO_FREQUENTLY), now)
  /\ \E k \in 1..Len(last.results) :
       /\ last.results[k].dataType = GiDailyNote
       /\ last.results[k].entry.status = "error"


\* the retcode a rejection reason carries, as a set of at most one number
CodeOf(reason) ==
  IF reason.class = "HoyolabApiError" THEN {reason.retcode} ELSE {}

\* C31: the error entry of a failed operation, as stored and as delivered to
\* the listeners, is shown as an authentication error exactly when the
\* reason carries retcode -100, -101 or 10001, as a rate limit exactly when
\* it carries -110, and as a generic error for every other retcode and for
\* every reason without one; no entry is both an authentication error and a
\* rate limit; an entry with data is shown as no error.
ErrorClassifiedByRetcode ==
  [][last'.op = "commit" =>
       \A k \in 1..Len(last'.results) :
         LET entry == last'.results[k].entry
             shown == ShowDataError(entry)
         IN /\ last'.settled[k].status = "fulfilled" => shown = "none"
            /\ last'.settled[k].status = "rejected" =>
                 LET code == CodeOf(last'.settled[k].reason)
                 IN /\ shown \in {"noAuth", "rateLimited", "error"}
                    /\ shown = "noAuth" <=>
                         code \cap {0 - 100, 0 - 101, 10001} # {}
                    /\ shown = "rateLimited" <=> code = {0 - 110}
                    /\ ~(IsAuthError(entry.error)
                           /\ IsRateLimitError(entry.error))
            /\ store'[BuildStoreKey(last'.arg.accountId,
                                    last'.results[k].dataType)] = entry
            /\ \A c \in 1..Len(last'.calls) :
                 last'.calls[c].dataType = last'.results[k].dataType =>
                   ShowDataError(last'.calls[c].entry) = shown]_vars

\* a consumer was called with the entry of an operation the service refused
\* with DATA_NOT_PUBLIC, which is shown as a generic error
OtherRetcodeShownAsError ==
  /\ last.op = "commit"
  /\ Len(last.calls) = 1
  /\ last.calls[1].entry.status = "error"
  /\ last.calls[1].entry.error = ApiError(DATA_NOT_PUBLIC)
  /\ ShowDataError(last.calls[1].entry) = "error"


\* the accounts a diff pass invalidated because their credentials changed
CredentialsChanged(diff) ==
  {a \in diff.invalidated :
     /\ a \in DOMAIN diff.arg.old
     /\ a \in DOMAIN diff.arg.new.accounts
     /\ diff.arg.old[a].auth # diff.arg.new.accounts[a].auth}

\* C32: in the step that follows a diff pass which invalidated an account
\* because its credentials changed, the store holds no entry of that account
\* whose data was fetched with the credentials the account had before the
\* change.
NoEntryOfOldCredentials ==
  [][last.op = "diff" =>
       \A a \in CredentialsChanged(last) :
         \A dt \in DOMAIN EntriesOf(store', a) :
           EntriesOf(store', a)[dt].status = "ok" =>
             EntriesOf(store', a)[dt].data.cred # last.arg.old[a].auth]_vars


\* C33: after a diff pass, every entry with data that the store holds for a
\* configured account was fetched with the external id the new configuration
\* holds for that account and the game of the data type, and so was every
\* entry the pass replayed to a consumer.
EntriesFetchedForConfiguredUid ==
  [][last'.op = "diff" =>
       /\ \A a \in DOMAIN last'.arg.new.accounts :
            \A dt \in DOMAIN EntriesOf(store', a) :
              EntriesOf(store', a)[dt].status = "ok" =>
                EntriesOf(store', a)[dt].data.uid =
                  last'.arg.new.accounts[a].uids[GameOf(dt)]
       /\ \A k \in 1..Len(last'.calls) :
            last'.calls[k].entry.status = "ok" =>
              last'.calls[k].entry.data.uid =
                last'.arg.new.accounts[last'.calls[k].accountId]
                  .uids[GameOf(last'.calls[k].dataType)]]_vars


\* C34: while a call started by a tick has not returned, the in-flight flag
\* is set; while it is set every timer firing is skipped, starting no call
\* and no fetch operation, whatever the account; the flag is cleared only by
\* the return of the last call of the tick, never by another step; and
\* meanwhile requestUpdate starts its call and the commit of a request
\* stores its entries, both leaving the flag set.
PendingTickFetchHoldsGuard ==
  [][/\ (\E i \in 1..Len(tasks') : tasks'[i].owner = "tick") => polling'
     /\ (polling /\ last'.op = "pollTick") =>
          /\ last'.noop
          /\ tasks' = tasks
          /\ last'.fetches = <<>>
          /\ polling'
     /\ (polling /\ ~polling') =>
          /\ last'.op \in {"commit", "skipFetch", "rejectFetch"}
          /\ last'.arg.owner = "tick"
          /\ \A i \in 1..Len(tasks') : tasks'[i].owner # "tick"
     /\ (polling /\ last'.op = "requestUpdate" /\ ~last'.noop) =>
          /\ Len(tasks') = Len(tasks) + 1
          /\ polling'
     /\ (polling /\ last'.op \in {"startFetch", "settle", "commit"}
           /\ last'.arg.owner = "request") =>
          /\ polling'
          /\ last'.op = "startFetch" => last'.fetches # <<>>
          /\ last'.op = "commit" =>
               \A k \in 1..Len(last'.results) :
                 store'[BuildStoreKey(last'.arg.accountId,
                                      last'.results[k].dataType)]
                   = last'.results[k].entry]_vars

\* a request stored its entries while an operation of a tick had been
\* pending since before the request was made, and the flag is still set
RequestCommittedPastPendingTick ==
  /\ last.op = "commit"
  /\ last.arg.owner = "request"
  /\ last.writes # <<>>
  /\ polling
  /\ Len(tasks) = 1
  /\ tasks[1].owner = "tick"
  /\ tasks[1].pc = "fetch"
  /\ tasks[1].settled = <<>>


\* C35: a diff pass compares against the snapshot the latest earlier pass
\* stored, or against the one init seeded when no pass ran before: with
\* accounts configured at start-up no pass runs before the seed has stored
\* its snapshot, and a seed that resolves after a pass leaves the snapshot
\* of that pass in place.
DiffAgainstLatestSnapshot ==
  [][/\ last'.op = "diff" =>
          /\ last'.arg.old = previousAccounts.value
          /\ previousAccounts' = [defined |-> TRUE,
                                  value |-> last'.arg.new.accounts]
          /\ DOMAIN S2.accounts # {} => previousAccounts.defined
     /\ (last'.op = "seed" /\ previousAccounts.defined) =>
          previousAccounts' = previousAccounts]_vars


\* settings s with account a and the pending flag left out
OutsideValidation(s, a) ==
  [accounts |-> [x \in DOMAIN s.accounts \ {a} |-> s.accounts[x]],
   disableAnimations |-> s.disableAnimations,
   bannerBadgePosition |-> s.bannerBadgePosition,
   bannerBadgeLayout |-> s.bannerBadgeLayout,
   bannerBadgeFontSize |-> s.bannerBadgeFontSize]

\* C36: the write-back of a validation leaves every part of the settings
\* Stream Deck holds at that moment as it is, except the pending flag and,
\* of the validated account, authStatus, uids and nicknames: the other
\* accounts, the preferences, and the identity and credentials of the
\* validated account are those of the moment of the write.
WriteBackKeepsOtherSettings ==
  [][last'.op = "validated" =>
       \E a \in last'.arg.snapshot.pendingValidation :
         /\ OutsideValidation(settings', a) = OutsideValidation(settings, a)
         /\ a \in DOMAIN settings.accounts <=> a \in DOMAIN settings'.accounts
         /\ (a \in DOMAIN settings.accounts
               /\ a \in DOMAIN settings'.accounts) =>
              /\ settings'.accounts[a].id = settings.accounts[a].id
              /\ settings'.accounts[a].auth = settings.accounts[a].auth]_vars


\* the blink chains of the key that are live: the armed closures that will
\* call setImage when their timeout fires
LiveChains(id) ==
  {h \in DOMAIN blinkTimers :
     /\ blinkTimers[h].actionId = id
     /\ blinkTimers[h].generation = GetKeyState(keyStates, id).blinkGeneration}

\* C37: a banner key has at most one live blink timer chain at any time,
\* and a closure that calls setImage was started after the latest
\* clearBlinkAnimation of its key, however data updates and key presses
\* whose renders are suspended interleave.
OneLiveBlinkChain ==
  [][/\ \A id \in ActionIds : Cardinality(LiveChains(id))' <= 1
     /\ (last'.op = "blink" /\ last'.arg.setImage) =>
          last'.arg.closure.generation =
            keyStates[last'.arg.closure.actionId].blinkGeneration]_vars

====
